---------------------------- MODULE Spec2Model ----------------------------
(***************************************************************************)
(* Verification model of the product_sync add-on:                          *)
(*   services/api_client.py   APIClient (retrying HTTP client)             *)
(*   services/sync_service.py ProductSyncService (reconciliation loop)     *)
(*   models/product_sync.py   ProductTemplate (local product repository)   *)
(*   models/sync_log.py       ProductSyncLog (audit log)                   *)
(*   services/rate_limiter.py RateLimiter, AdaptiveRateLimiter             *)
(***************************************************************************)
EXTENDS Integers, Sequences, FiniteSets, TLC

(***************************************************************************)
(* Bounds of the model.                                                    *)
(***************************************************************************)
MaxRetriesBound == 3      \* largest max_retries a client is constructed with
MaxAttemptArg == 10       \* largest attempt number passed to the pure helpers
MaxCatalog == 2           \* largest number of records the external API serves
MaxRuns == 2              \* number of sync_products runs in one behaviour
MaxClock == 1             \* last second the clock reaches
MaxLimit == 1             \* largest limit argument of sync_products
SyncMaxRetries == 2       \* product_sync.api_max_retries of the sync runs
NumThreads == 2           \* threads sharing one rate limiter
MaxRate == 3              \* largest rate a limiter is constructed with
TicksPerWindow == 2       \* clock ticks in one window of per_seconds seconds
MaxTime == 2              \* last tick the clock reaches by idling
MaxAcquires == 4          \* wait_if_needed and try_acquire calls in one behaviour
MaxDuration == 5          \* longest duration of a sustained run, in ticks
MaxLogs == 3              \* log rows in the table cleanup_old_logs is run on
MaxDay == 3               \* last day of the calendar of the log table
MaxDays == 3              \* largest 'days' argument of cleanup_old_logs
MaxLimitArg == 3          \* largest limit handed to the slicing of the items
MaxPrice == 1             \* largest list_price of a row or an external record

(***************************************************************************)
(* Program constants.                                                      *)
(***************************************************************************)
MaxBackoff == 60          \* api_client.py:68
SuccessThreshold == 10    \* rate_limiter.py:209

VARIABLES
    \* ---- pure helper calls (api_client.py) ----
    call,             \* the last call of _should_retry / _calculate_backoff
    \* ---- APIClient._make_request ----
    max_retries,      \* self.max_retries
    c_pc,             \* position in _make_request: idle | loop | done
    attempt,          \* local variable attempt
    last_exception,   \* local variable last_exception ("None" when unset)
    c_result,         \* how the call ended: returned value or raised error
    http_requests,    \* number of session.request calls issued by this call
    sleeps,           \* the time.sleep arguments of this call, in order
    outcomes,         \* what each session.request call produced, in order
    \* ---- environment ----
    now,              \* the last value the clock was read at (whole seconds)
    catalog,          \* the 'items' list the external API serves
    \* ---- database (product.template, product.sync.log, transaction) ----
    products,         \* product.template rows, indexed by id
    logs,             \* product.sync.log rows, in creation order
    committed,        \* the rows as of the last commit
    n_commits,        \* number of env.cr.commit() calls
    n_rollbacks,      \* number of env.cr.rollback() calls
    \* ---- ProductSyncService.sync_products ----
    s_pc,             \* idle | fetching | processing
    s_dry_run,        \* argument dry_run
    s_limit,          \* argument limit
    sync_batch_id,    \* local variable sync_batch_id
    external_products,\* local variable external_products
    s_index,          \* position of the for loop (1-based)
    summary,          \* local variable summary
    tokens_acquired,  \* completed rate_limiter.wait_if_needed() calls of the run
    batch_seq,        \* number of batch identifiers generated so far
    history,          \* the runs that ended, in order
    \* ---- RateLimiter / AdaptiveRateLimiter (one shared instance) ----
    adaptive,         \* the instance is an AdaptiveRateLimiter
    rate,             \* self.rate
    tokens,           \* self.tokens, in units of 1/TicksPerWindow token
    max_tokens,       \* self.max_tokens, in the same units
    last_refill,      \* self.last_refill, in ticks
    lock,             \* thread holding self.lock, 0 when free
    min_rate,         \* self.min_rate
    max_rate,         \* self.max_rate
    initial_rate,     \* self.initial_rate
    success_count,    \* self.success_count
    \* ---- threads calling the limiter, and time.time() ----
    time,             \* the clock, in ticks
    th_pc,            \* per thread: idle, waiting for the lock, or sleeping
    th_result,        \* what the last try_acquire call returned
    wait_time,        \* local wait_time of the thread inside time.sleep
    wake_at,          \* the tick at which that time.sleep returns
    test_duration,    \* duration of the sustained run (0: no such run)
    \* ---- history of the limiter ----
    acct,             \* acquire calls started, try_acquire calls denied,
                      \* and the units that refills and resets added
    tries,            \* the try_acquire calls while no other method was called
    since_error       \* report_success calls since the last rate-limit error
                      \* or the reset_to_initial that followed it,
                      \* -1 before such an error and once the counter
                      \* has completed a round after it

clientVars == <<max_retries, c_pc, attempt, last_exception, c_result,
                http_requests, sleeps, outcomes>>
dbVars == <<products, logs, committed, n_commits, n_rollbacks>>
syncVars == <<s_pc, s_dry_run, s_limit, sync_batch_id, external_products,
              s_index, summary, tokens_acquired, batch_seq, history>>
envVars == <<now, catalog>>
limiterVars == <<adaptive, rate, tokens, max_tokens, last_refill, lock,
                 min_rate, max_rate, initial_rate, success_count>>
threadVars == <<time, th_pc, th_result, wait_time, wake_at, test_duration>>
ghostVars == <<acct, tries, since_error>>
limVars == <<limiterVars, threadVars, ghostVars>>
vars == <<call, max_retries, c_pc, attempt, last_exception, c_result,
          http_requests, sleeps, outcomes, now, catalog, products, logs,
          committed, n_commits, n_rollbacks, s_pc, s_dry_run, s_limit,
          sync_batch_id, external_products, s_index, summary,
          tokens_acquired, batch_seq, history, adaptive, rate, tokens,
          max_tokens, last_refill, lock, min_rate, max_rate, initial_rate,
          success_count, time, th_pc, th_result, wait_time, wake_at,
          test_duration, acct, tries, since_error>>
appVars == <<call, clientVars, envVars, dbVars, syncVars>>

Min(a, b) == IF a <= b THEN a ELSE b

(***************************************************************************)
(* APIClient._calculate_backoff                                            *)
(***************************************************************************)
calculate_backoff_constant(n) == 1

calculate_backoff_off_by_one(n) == Min(2 ^ n, MaxBackoff)

calculate_backoff(n) ==
    LET base_delay == 2 ^ (n - 1)
    IN  Min(base_delay, MaxBackoff)

(***************************************************************************)
(* APIClient._should_retry                                                 *)
(***************************************************************************)
should_retry_without_408(status_code, n, maxr) ==
    IF n >= maxr THEN FALSE
    ELSE IF 500 <= status_code /\ status_code < 600 THEN TRUE
    ELSE IF status_code = 429 THEN TRUE
    ELSE FALSE

should_retry_any_error(status_code, n, maxr) ==
    IF n >= maxr THEN FALSE
    ELSE IF 400 <= status_code /\ status_code < 600 THEN TRUE
    ELSE FALSE

should_retry(status_code, n, maxr) ==
    IF n >= maxr THEN FALSE
    ELSE IF 500 <= status_code /\ status_code < 600 THEN TRUE
    ELSE IF status_code = 429 THEN TRUE
    ELSE IF status_code = 408 THEN TRUE
    ELSE FALSE

(***************************************************************************)
(* Inputs of the pure helpers.                                             *)
(***************************************************************************)
NoCall == [fn |-> "none", returned |-> FALSE]

ShouldRetryCalls ==
    [fn : {"should_retry"}, status_code : 100..599,
     attempt : 0..MaxAttemptArg,
     max_retries : 0..MaxRetriesBound + 2, returned : {FALSE}, result : {FALSE}]

CalculateBackoffCalls ==
    [fn : {"calculate_backoff"}, attempt : 1..MaxAttemptArg,
     returned : {FALSE}, result : {0}]

CallShouldRetry ==
    /\ call.fn = "should_retry"
    /\ ~call.returned
    /\ call' = [call EXCEPT !.returned = TRUE,
                            !.result = should_retry(call.status_code,
                                                    call.attempt,
                                                    call.max_retries)]
    /\ UNCHANGED <<limVars, clientVars, envVars, dbVars, syncVars>>

CallCalculateBackoff ==
    /\ call.fn = "calculate_backoff"
    /\ ~call.returned
    /\ call' = [call EXCEPT !.returned = TRUE,
                            !.result = calculate_backoff(call.attempt)]
    /\ UNCHANGED <<limVars, clientVars, envVars, dbVars, syncVars>>

(***************************************************************************)
(* What one session.request call can produce.                              *)
(***************************************************************************)
StatusCodes == {200, 204, 302, 400, 401, 403, 404, 408, 429, 500, 502, 503}
Exceptions == {"Timeout", "ConnectionError", "RequestException"}
\* body of a response: JSON with an 'items' list, JSON without it, the empty
\* JSON object, or something response.json() raises ValueError on
Bodies == {"json_items", "json_other", "json_empty", "not_json"}

Responses == [kind : {"response"}, status_code : StatusCodes, body : Bodies]
Raised == [kind : {"raise"}, exc : Exceptions]

IsSuccess(status_code) == 200 <= status_code /\ status_code < 300

\* only the body of a 2xx response is read
HttpOutcomes ==
    {o \in Responses : ~IsSuccess(o.status_code) => o.body = "not_json"}
        \cup Raised


(***************************************************************************)
(* How a call of _make_request ends.                                       *)
(***************************************************************************)
NoResult == [kind |-> "none"]

\* return response.json(), or None when the body is not JSON
Returned(v) == [kind |-> "return", value |-> v]

\* raise APIClientError("Client error: <status> - <text>")
ClientError(status_code) ==
    [kind |-> "APIClientError", msg |-> "Client error",
     status_code |-> status_code]

\* raise APIClientError("Request failed after <max_retries> attempts[: <exc>]")
ExhaustedError(maxr, exc) ==
    [kind |-> "APIClientError", msg |-> "Request failed after",
     attempts |-> maxr, cause |-> exc]

\* response.json() inside the 2xx branch
parse_json_keeps_text(body) == body

parse_json(body) == IF body = "not_json" THEN "None" ELSE body

\* while attempt < self.max_retries
loop_condition_inclusive(n, maxr) == n <= maxr

loop_condition(n, maxr) == n < maxr

\* if attempt < self.max_retries: sleep(backoff); continue   (except branches)
backoff_after_exception_always(n, maxr) == TRUE

backoff_after_exception(n, maxr) == n < maxr

(***************************************************************************)
(* APIClient.get / post / patch / delete: entry into _make_request.        *)
(***************************************************************************)
make_request_entry ==
    /\ c_pc' = "loop"
    /\ attempt' = 0
    /\ last_exception' = "None"
    /\ c_result' = NoResult
    /\ http_requests' = 0
    /\ sleeps' = <<>>
    /\ outcomes' = <<>>

MakeRequest ==
    /\ s_pc = "idle"
    /\ c_pc \in {"idle", "done"}
    /\ make_request_entry
    /\ UNCHANGED <<limVars, call, max_retries, envVars, dbVars, syncVars>>

(***************************************************************************)
(* One iteration of the while loop of _make_request: one session.request   *)
(* call with outcome o, classified as the code classifies it.              *)
(***************************************************************************)
Attempt(o) ==
    /\ c_pc = "loop"
    /\ loop_condition(attempt, max_retries)
    /\ LET n == attempt + 1 IN
       /\ attempt' = n
       /\ http_requests' = http_requests + 1
       /\ outcomes' = Append(outcomes, o)
       /\ IF o.kind = "response"
          THEN /\ last_exception' = last_exception
               /\ IF IsSuccess(o.status_code)
                  THEN /\ c_result' = Returned(parse_json(o.body))
                       /\ c_pc' = "done"
                       /\ sleeps' = sleeps
                  ELSE IF should_retry(o.status_code, n, max_retries)
                  THEN /\ sleeps' = Append(sleeps, calculate_backoff(n))
                       /\ c_pc' = "loop"
                       /\ c_result' = c_result
                  ELSE /\ c_result' = ClientError(o.status_code)
                       /\ c_pc' = "done"
                       /\ sleeps' = sleeps
          ELSE /\ last_exception' = o.exc
               /\ c_pc' = "loop"
               /\ c_result' = c_result
               /\ IF backoff_after_exception(n, max_retries)
                  THEN sleeps' = Append(sleeps, calculate_backoff(n))
                  ELSE sleeps' = sleeps
    /\ UNCHANGED <<limVars, call, max_retries, envVars, dbVars, syncVars>>

AttemptStep == \E o \in HttpOutcomes : Attempt(o)

(***************************************************************************)
(* The loop of _make_request ends without a return: every attempt failed.  *)
(***************************************************************************)
Exhausted ==
    /\ c_pc = "loop"
    /\ ~loop_condition(attempt, max_retries)
    /\ c_result' = ExhaustedError(max_retries, last_exception)
    /\ c_pc' = "done"
    /\ UNCHANGED <<limVars, call, max_retries, attempt, last_exception,
                   http_requests, sleeps, outcomes, envVars, dbVars, syncVars>>

(***************************************************************************)
(* External records: Python dicts, modelled as functions whose domain is   *)
(* the set of keys present.  'description', 'standard_price', 'barcode'    *)
(* and 'active' are handled by the code exactly like 'name' and            *)
(* 'list_price' and are left out of the bounded record set.                *)
(***************************************************************************)
ExternalIds == {1, 2}
ExternalSkus == {"", "A", "B"}

RecordKeySets == {{"id", "sku", "name"}, {"sku", "name"}, {"id", "name"}}

MkRecord(keys, id, sku, name) ==
    [k \in keys |-> CASE k = "id" -> id
                      [] k = "sku" -> sku
                      [] k = "name" -> name]

Records ==
    {MkRecord(keys, id, sku, name) :
        keys \in RecordKeySets, id \in ExternalIds, sku \in ExternalSkus,
        name \in {"n1"}}

RECURSIVE SeqsUpTo(_, _)
SeqsUpTo(S, n) ==
    IF n = 0 THEN {<<>>}
    ELSE LET shorter == SeqsUpTo(S, n - 1)
         IN  shorter \cup {Append(q, x) : q \in {r \in shorter : Len(r) = n - 1},
                                          x \in S}

\* an element of 'items' that is not a JSON object (null): it has no .get
JsonNull == [json_type |-> "null"]

\* ext_product.get(...) works: the item is a dict
is_dict(d) == "json_type" \notin DOMAIN d

\* what response['items'] may hold
Items == Records \cup {JsonNull}

Catalogs == SeqsUpTo(Items, MaxCatalog)

\* dict.get(key, default)
get(d, key, default) == IF key \in DOMAIN d THEN d[key] ELSE default

\* a JSON null (Python None) where the API documents a number
IntNone == -1

\* str() of an external identifier; str(None) is the text 'None'
Digits == <<"0", "1", "2", "3", "4", "5", "6", "7", "8", "9">>
RECURSIVE str(_)
str(n) == IF n = IntNone THEN "None"
          ELSE IF n < 10 THEN Digits[n + 1]
          ELSE str(n \div 10) \o Digits[(n % 10) + 1]

\* str(external_data.get('id', ''))
external_id_of(d) == IF "id" \in DOMAIN d THEN str(d["id"]) ELSE ""

(***************************************************************************)
(* product.template rows.  NULL is an unset Char/Text column, NoDate an    *)
(* unset Datetime column.  In an external record NULL is a JSON null       *)
(* (Python None) where the API documents a text.                           *)
(***************************************************************************)
NULL == "<null>"
NoDate == -1

\* column defaults of a new row (product_sync.py:20-68)
ProductDefaults ==
    [name |-> NULL, external_id |-> NULL, external_sku |-> NULL,
     default_code |-> NULL, list_price |-> 0, is_from_external |-> FALSE,
     last_sync_date |-> NoDate, sync_status |-> "manual",
     sync_error_message |-> NULL]

\* the values a dict assigns over a row
Apply(row, values) ==
    [f \in DOMAIN row |-> IF f \in DOMAIN values THEN values[f] ELSE row[f]]

\* UNIQUE(external_id), UNIQUE(external_sku): SQL NULLs never collide
sql_constraints_unchecked(rows) == TRUE

sql_constraints(rows) ==
    \A i, j \in 1..Len(rows) :
        i # j =>
            /\ (rows[i].external_id # NULL
                    => rows[i].external_id # rows[j].external_id)
            /\ (rows[i].external_sku # NULL
                    => rows[i].external_sku # rows[j].external_sku)

\* @api.constrains('external_id', 'external_sku'); an unset or empty Char
\* column is falsy
check_external_fields(row) ==
    (row.external_id \notin {NULL, ""}) => (row.external_sku \notin {NULL, ""})

RowsValid(rows) ==
    /\ sql_constraints(rows)
    /\ \A i \in 1..Len(rows) : check_external_fields(rows[i])

\* search([(field, '=', value)], limit=1): the id of the match, 0 for the
\* empty recordset
SearchFirst(rows, field, value) ==
    LET hits == {i \in 1..Len(rows) : rows[i][field] = value}
    IN  IF hits = {} THEN 0 ELSE CHOOSE i \in hits : \A j \in hits : i <= j

search_by_external_id_never(rows, external_id) == 0

search_by_external_id(rows, external_id) ==
    SearchFirst(rows, "external_id", external_id)

search_by_sku_never(rows, sku) == 0

search_by_sku(rows, sku) ==
    LET product == SearchFirst(rows, "external_sku", sku)
    IN  IF product = 0 THEN SearchFirst(rows, "default_code", sku)
        ELSE product

StringValueFields == {"name", "external_id", "external_sku", "default_code"}

\* the fields the comprehension of _prepare_values_from_external keeps:
\* v not in [None, '']
kept_fields(raw) ==
    {f \in DOMAIN raw : ~(f \in StringValueFields /\ raw[f] \in {NULL, ""})}

\* float(external_data.get('list_price', 0.0)) raises TypeError on None
float_raises(d) == get(d, "list_price", 0) = IntNone

\* ProductTemplate._prepare_values_from_external, with the clock reading t,
\* when float() does not raise
prepare_values_from_external(d, t) ==
    LET raw == [name |-> get(d, "name", ""),
                external_id |-> external_id_of(d),
                external_sku |-> get(d, "sku", ""),
                default_code |-> get(d, "sku", ""),
                list_price |-> get(d, "list_price", 0),
                is_from_external |-> TRUE,
                last_sync_date |-> t]
    IN  [f \in kept_fields(raw) |-> raw[f]]

\* the comparison loop of update_from_external
has_changes_never(row, values) == FALSE

has_changes(row, values) == \E f \in DOMAIN values : row[f] # values[f]

\* ProductTemplate.update_from_external on row, with the clock reading t:
\* the value returned and the row after the call
update_from_external(row, d, t) ==
    LET values == prepare_values_from_external(d, t)
    IN  IF has_changes(row, values)
        THEN [returned |-> TRUE, row |-> Apply(row, values)]
        ELSE [returned |-> FALSE, row |-> row]

\* ProductTemplate.create_from_external, with the clock reading t: the row
\* handed to create()
create_from_external_without_status(d, t) ==
    Apply(ProductDefaults, prepare_values_from_external(d, t))

create_from_external(d, t) ==
    LET values == prepare_values_from_external(d, t)
    IN  Apply(ProductDefaults,
              [f \in DOMAIN values \cup {"sync_status"} |->
                  IF f = "sync_status" THEN "synced" ELSE values[f]])

\* ProductTemplate.mark_as_synced, with the clock reading t
mark_as_synced_clearing_sku(row, t) ==
    Apply(row, [sync_status |-> "synced", last_sync_date |-> t,
                sync_error_message |-> NULL, external_sku |-> NULL])

mark_as_synced(row, t) ==
    Apply(row, [sync_status |-> "synced", last_sync_date |-> t,
                sync_error_message |-> NULL])

\* rows after write()/create(), which raise when a constraint is violated
Replace_unlinking(rows, id, row) ==
    IF id > Len(rows) THEN rows
    ELSE SubSeq(rows, 1, id - 1) \o SubSeq(rows, id + 1, Len(rows))

Replace(rows, id, row) == [rows EXCEPT ![id] = row]

(***************************************************************************)
(* product.sync.log rows.                                                  *)
(***************************************************************************)
\* ProductSyncLog.log_success -> log_operation
log_success(operation, product, external_id, external_sku, batch) ==
    [operation |-> operation, status |-> "success", product_id |-> product,
     external_id |-> external_id, external_sku |-> external_sku,
     sync_batch_id |-> batch]

\* ProductSyncLog.log_error -> log_operation
log_error(external_id, external_sku, batch) ==
    [operation |-> "error", status |-> "error", product_id |-> 0,
     external_id |-> external_id, external_sku |-> external_sku,
     sync_batch_id |-> batch]

(***************************************************************************)
(* ProductSyncService._sync_single_product.  t1 and t2 are the readings of *)
(* fields.Datetime.now() in _prepare_values_from_external and in           *)
(* mark_as_synced; clock is the last reading made (t0 when none is made).  *)
(* The result says whether the call raised, and the rows it leaves.        *)
(***************************************************************************)
Raise(rows, lg, clock) ==
    [raised |-> TRUE, operation |-> "error", products |-> rows, logs |-> lg,
     clock |-> clock]

Done(operation, rows, lg, clock) ==
    [raised |-> FALSE, operation |-> operation, products |-> rows,
     logs |-> lg, clock |-> clock]

\* if not external_id or not external_sku: raise ValueError
missing_required_fields_id_only(external_id, external_sku) ==
    external_id = ""

missing_required_fields(external_id, external_sku) ==
    external_id = "" \/ external_sku = ""

\* if not dry_run: SyncLog.log_success(...)
success_log_written_always(dry_run) == TRUE

success_log_written(dry_run) == ~dry_run

\* if not dry_run: SyncLog.log_error(...)   (except branch of sync_products)
error_log_written_never(dry_run) == FALSE

error_log_written(dry_run) == ~dry_run

sync_single_product(rows, lg, d, batch, dry_run, t0, t1, t2) ==
    LET external_id == external_id_of(d)
        external_sku == get(d, "sku", "")
        by_id == search_by_external_id(rows, external_id)
        existing_product == IF by_id = 0 THEN search_by_sku(rows, external_sku)
                            ELSE by_id
        Logged(operation, product) ==
            IF success_log_written(dry_run)
            THEN Append(lg, log_success(operation, product, external_id,
                                        external_sku, batch))
            ELSE lg
    IN  IF missing_required_fields(external_id, external_sku)
        THEN Raise(rows, lg, t0)
        ELSE IF existing_product # 0
        THEN IF dry_run
             THEN Done("update", rows, Logged("update", existing_product), t0)
             ELSE LET updated == update_from_external(rows[existing_product],
                                                      d, t1)
                      written == Replace(rows, existing_product, updated.row)
                  IN  IF ~updated.returned
                      THEN Done("skip", rows, Logged("skip", existing_product),
                                t1)
                      ELSE IF ~RowsValid(written)
                      THEN Raise(rows, lg, t1)
                      ELSE Done("update",
                                Replace(written, existing_product,
                                        mark_as_synced(updated.row, t2)),
                                Logged("update", existing_product), t2)
        ELSE IF dry_run
             THEN Done("create", rows, Logged("create", 0), t0)
             ELSE LET created == Append(rows, create_from_external(d, t1))
                  IN  IF ~RowsValid(created)
                      THEN Raise(rows, lg, t1)
                      ELSE Done("create", created,
                                Logged("create", Len(created)), t1)

(***************************************************************************)
(* ProductSyncService.sync_products.                                       *)
(***************************************************************************)
NoLimit == [given |-> FALSE, value |-> 0]
Limits == {NoLimit} \cup {[given |-> TRUE, value |-> v] : v \in 1..MaxLimit}

\* if limit: external_products = external_products[:limit]
apply_limit(items, limit) ==
    IF limit.given /\ limit.value # 0
    THEN IF limit.value > 0
         THEN SubSeq(items, 1, Min(limit.value, Len(items)))
         ELSE SubSeq(items, 1, Len(items) + limit.value)
    ELSE items

\* lines 133-143 of sync_products alone: the items processed and the total
\* reported for a response and a limit argument, None or an integer >= 0
CallApplyLimit ==
    /\ call.fn = "apply_limit"
    /\ ~call.returned
    /\ call' = [call EXCEPT !.returned = TRUE,
                            !.result = apply_limit(call.items, call.limit),
                            !.total = Len(apply_limit(call.items, call.limit))]
    /\ UNCHANGED <<limVars, clientVars, envVars, dbVars, syncVars>>

(***************************************************************************)
(* ProductTemplate.update_from_external alone, on one stored row and one   *)
(* external record whose fields may be absent, empty or null.              *)
(***************************************************************************)
UpdateRecords ==
    {[k \in keys |-> CASE k = "id" -> id
                       [] k = "sku" -> sku
                       [] k = "name" -> name
                       [] k = "list_price" -> list_price] :
        keys \in SUBSET {"id", "sku", "name", "list_price"},
        id \in {1, IntNone},
        sku \in {"A", "B", "", NULL},
        name \in {"n1", "", NULL},
        list_price \in (0..MaxPrice) \cup {IntNone}}

UpdateRows ==
    {[ProductDefaults EXCEPT !.name = "n0", !.external_id = external_id,
                             !.external_sku = "A", !.default_code = "A",
                             !.list_price = list_price,
                             !.last_sync_date = last_sync_date] :
        external_id \in {NULL, "1"}, list_price \in 0..MaxPrice,
        last_sync_date \in {NoDate} \cup (0..MaxClock)}

CallUpdateFromExternal ==
    /\ call.fn = "update_from_external"
    /\ ~call.returned
    /\ ~call.raised
    /\ call.after = call.row
    /\ IF float_raises(call.external_data)
       THEN call' = [call EXCEPT !.raised = TRUE]
       ELSE LET updated == update_from_external(call.row, call.external_data,
                                                call.t)
            IN  call' = [call EXCEPT !.returned = TRUE,
                                     !.result = updated.returned,
                                     !.after = updated.row]
    /\ UNCHANGED <<limVars, clientVars, envVars, dbVars, syncVars>>

NewSummary(batch) ==
    [total |-> 0, create |-> 0, update |-> 0, skip |-> 0, errors |-> 0,
     sync_batch_id |-> batch]

\* if not response or 'items' not in response
invalid_response_only_none(value) == value = "None"

invalid_response(value) == value \in {"None", "json_empty", "json_other"}

\* the responses the external API gives to GET /products in the bounded runs
FetchOutcomes ==
    {[kind |-> "response", status_code |-> 200, body |-> "json_items"],
     [kind |-> "response", status_code |-> 200, body |-> "json_other"],
     [kind |-> "response", status_code |-> 200, body |-> "json_empty"],
     [kind |-> "response", status_code |-> 204, body |-> "not_json"],
     [kind |-> "response", status_code |-> 404, body |-> "not_json"],
     [kind |-> "response", status_code |-> 500, body |-> "not_json"],
     [kind |-> "raise", exc |-> "Timeout"]}

ClientDropped ==
    /\ c_pc' = "idle"
    /\ attempt' = 0
    /\ last_exception' = "None"
    /\ c_result' = NoResult
    /\ http_requests' = 0
    /\ sleeps' = <<>>
    /\ outcomes' = <<>>

LastRun == history[Len(history)]

EndRun(outcome, finalSummary, items, rows, lg) ==
    history' = [history EXCEPT ![Len(history)] =
                   [@ EXCEPT !.outcome = outcome, !.summary = finalSummary,
                             !.items = items,
                             !.tokens = tokens_acquired,
                             !.products_after = rows,
                             !.logs_after = lg]]

\* sync_products up to the call of api_client.get('/products'):
\* lines 102-128
SyncProducts(dry_run, limit) ==
    /\ s_pc = "idle"
    /\ c_pc = "idle"
    /\ Len(history) < MaxRuns
    /\ s_pc' = "fetching"
    /\ s_dry_run' = dry_run
    /\ s_limit' = limit
    /\ batch_seq' = batch_seq + 1
    /\ sync_batch_id' = batch_seq + 1
    /\ summary' = NewSummary(batch_seq + 1)
    /\ external_products' = <<>>
    /\ s_index' = 0
    /\ tokens_acquired' = 1
    /\ max_retries' = SyncMaxRetries
    /\ make_request_entry
    /\ history' = Append(history,
                         [sync_batch_id |-> batch_seq + 1, dry_run |-> dry_run,
                          limit |-> limit, outcome |-> "running",
                          summary |-> NewSummary(batch_seq + 1),
                          items |-> <<>>, tokens |-> 0,
                          products_before |-> products,
                          logs_before |-> logs,
                          products_after |-> products,
                          logs_after |-> logs])
    /\ UNCHANGED <<limVars, call, envVars, dbVars>>

SyncProductsCall == \E dry_run \in BOOLEAN, limit \in Limits :
                        SyncProducts(dry_run, limit)

\* one attempt of the fetch request
FetchAttempt ==
    /\ s_pc = "fetching"
    /\ \E o \in FetchOutcomes : Attempt(o)

FetchExhausted ==
    /\ s_pc = "fetching"
    /\ Exhausted

\* api_client.get returned or raised: lines 128-143, and 183-187 when the
\* fetch raised or the response is invalid
FetchReturn ==
    /\ s_pc = "fetching"
    /\ c_pc = "done"
    /\ ClientDropped
    /\ IF c_result.kind = "APIClientError" \/ invalid_response(c_result.value)
       THEN /\ IF s_dry_run
               THEN UNCHANGED dbVars
               ELSE /\ products' = committed.products
                    /\ logs' = committed.logs
                    /\ n_rollbacks' = n_rollbacks + 1
                    /\ UNCHANGED <<committed, n_commits>>
            /\ s_pc' = "idle"
            /\ EndRun("raised", summary, <<>>,
                      IF s_dry_run THEN products ELSE committed.products,
                      IF s_dry_run THEN logs ELSE committed.logs)
            /\ UNCHANGED <<external_products, s_index, summary>>
       ELSE /\ external_products' = apply_limit(catalog, s_limit)
            /\ summary' = [summary EXCEPT
                              !.total = Len(apply_limit(catalog, s_limit))]
            /\ s_index' = 1
            /\ s_pc' = "processing"
            /\ UNCHANGED <<dbVars, history>>
    /\ UNCHANGED <<limVars, call, max_retries, envVars, s_dry_run, s_limit,
                   sync_batch_id, tokens_acquired, batch_seq>>

\* except Exception: if not dry_run: self.env.cr.rollback()
rollback_on_error_never(dry_run) == FALSE

rollback_on_error(dry_run) == ~dry_run

\* one iteration of the for loop: lines 146-177
ProcessRecord_without_token ==
    /\ s_pc = "processing"
    /\ s_index <= Len(external_products)
    /\ is_dict(external_products[s_index])
    /\ \E t1 \in now..MaxClock : \E t2 \in t1..MaxClock :
          LET ext_product == external_products[s_index]
              result == sync_single_product(products, logs, ext_product,
                                            sync_batch_id, s_dry_run,
                                            now, t1, t2)
          IN  /\ now' = result.clock
              /\ products' = result.products
              /\ IF result.raised
                 THEN /\ summary' = [summary EXCEPT !.errors = @ + 1]
                      /\ logs' = IF error_log_written(s_dry_run)
                                 THEN Append(result.logs,
                                             log_error(external_id_of(ext_product),
                                                       get(ext_product, "sku", ""),
                                                       sync_batch_id))
                                 ELSE result.logs
                 ELSE /\ summary' = [summary EXCEPT ![result.operation] = @ + 1]
                      /\ logs' = result.logs
    /\ tokens_acquired' = tokens_acquired
    /\ s_index' = s_index + 1
    /\ UNCHANGED <<limVars, call, clientVars, catalog, committed, n_commits,
                   n_rollbacks, s_pc, s_dry_run, s_limit, sync_batch_id,
                   external_products, batch_seq, history>>

ProcessRecord_errors_uncounted ==
    /\ s_pc = "processing"
    /\ s_index <= Len(external_products)
    /\ is_dict(external_products[s_index])
    /\ \E t1 \in now..MaxClock : \E t2 \in t1..MaxClock :
          LET ext_product == external_products[s_index]
              result == sync_single_product(products, logs, ext_product,
                                            sync_batch_id, s_dry_run,
                                            now, t1, t2)
          IN  /\ now' = result.clock
              /\ products' = result.products
              /\ IF result.raised
                 THEN /\ summary' = summary
                      /\ logs' = IF error_log_written(s_dry_run)
                                 THEN Append(result.logs,
                                             log_error(external_id_of(ext_product),
                                                       get(ext_product, "sku", ""),
                                                       sync_batch_id))
                                 ELSE result.logs
                 ELSE /\ summary' = [summary EXCEPT ![result.operation] = @ + 1]
                      /\ logs' = result.logs
    /\ tokens_acquired' = tokens_acquired + 1
    /\ s_index' = s_index + 1
    /\ UNCHANGED <<limVars, call, clientVars, catalog, committed, n_commits,
                   n_rollbacks, s_pc, s_dry_run, s_limit, sync_batch_id,
                   external_products, batch_seq, history>>

ProcessRecord ==
    /\ s_pc = "processing"
    /\ s_index <= Len(external_products)
    /\ is_dict(external_products[s_index])
    /\ \E t1 \in now..MaxClock : \E t2 \in t1..MaxClock :
          LET ext_product == external_products[s_index]
              result == sync_single_product(products, logs, ext_product,
                                            sync_batch_id, s_dry_run,
                                            now, t1, t2)
          IN  /\ now' = result.clock
              /\ products' = result.products
              /\ IF result.raised
                 THEN /\ summary' = [summary EXCEPT !.errors = @ + 1]
                      /\ logs' = IF error_log_written(s_dry_run)
                                 THEN Append(result.logs,
                                             log_error(external_id_of(ext_product),
                                                       get(ext_product, "sku", ""),
                                                       sync_batch_id))
                                 ELSE result.logs
                 ELSE /\ summary' = [summary EXCEPT ![result.operation] = @ + 1]
                      /\ logs' = result.logs
    /\ tokens_acquired' = tokens_acquired + 1
    /\ s_index' = s_index + 1
    /\ UNCHANGED <<limVars, call, clientVars, catalog, committed, n_commits,
                   n_rollbacks, s_pc, s_dry_run, s_limit, sync_batch_id,
                   external_products, batch_seq, history>>

\* an iteration that raises outside the inner try: ext_product.get('name')
\* at line 147 on an item that is no dict; the outer handler (lines 183-187)
\* rolls back unless dry_run and re-raises
ProcessRecordRaises ==
    /\ s_pc = "processing"
    /\ s_index <= Len(external_products)
    /\ ~is_dict(external_products[s_index])
    /\ IF rollback_on_error(s_dry_run)
       THEN /\ products' = committed.products
            /\ logs' = committed.logs
            /\ n_rollbacks' = n_rollbacks + 1
            /\ UNCHANGED <<committed, n_commits>>
       ELSE UNCHANGED dbVars
    /\ s_pc' = "idle"
    /\ EndRun("raised", summary, external_products,
              IF rollback_on_error(s_dry_run) THEN committed.products
              ELSE products,
              IF rollback_on_error(s_dry_run) THEN committed.logs ELSE logs)
    /\ UNCHANGED limVars
    /\ UNCHANGED <<call, clientVars, envVars, s_dry_run, s_limit,
                   sync_batch_id, external_products, s_index, summary,
                   tokens_acquired, batch_seq>>

\* the loop is over: commit (lines 179-181) and return summary
SyncFinish ==
    /\ s_pc = "processing"
    /\ s_index > Len(external_products)
    /\ IF s_dry_run
       THEN UNCHANGED <<committed, n_commits>>
       ELSE /\ committed' = [products |-> products, logs |-> logs]
            /\ n_commits' = n_commits + 1
    /\ s_pc' = "idle"
    /\ EndRun("returned", summary, external_products, products, logs)
    /\ UNCHANGED limVars
    /\ UNCHANGED <<call, clientVars, envVars, products, logs, n_rollbacks,
                   s_dry_run, s_limit, sync_batch_id, external_products,
                   s_index, summary, tokens_acquired, batch_seq>>

(***************************************************************************)
(* ProductSyncLog.cleanup_old_logs(days).  The table is a sequence of rows *)
(* of which only the columns the method reads are kept: id, status and     *)
(* create_date, the date counted in days like the clock.                   *)
(***************************************************************************)
\* the tables of at most MaxLogs rows created up to the day 'today'
LogTables(today) ==
    UNION {{[i \in 1..n |-> [status |-> f[i].status,
                             create_date |-> f[i].create_date, id |-> i]] :
               f \in [1..n -> [status : {"success", "error", "warning"},
                               create_date : 0..today]]} :
           n \in 0..MaxLogs}

\* self.search([('create_date', '<', cutoff_date), ('status', '!=', 'error')])
old_logs_any_status(rows, cutoff_date) ==
    {i \in 1..Len(rows) : rows[i].create_date < cutoff_date}

old_logs(rows, cutoff_date) ==
    {i \in 1..Len(rows) :
        rows[i].create_date < cutoff_date /\ rows[i].status # "error"}

\* old_logs.unlink(): the rows left, in their order
RECURSIVE unlink(_, _)
unlink(rows, ids) ==
    IF rows = <<>> THEN <<>>
    ELSE LET rest == unlink(SubSeq(rows, 1, Len(rows) - 1), ids)
         IN  IF Len(rows) \in ids THEN rest
             ELSE Append(rest, rows[Len(rows)])

CleanupOldLogs ==
    /\ call = NoCall
    /\ \E days \in 0..MaxDays :
          LET cutoff_date == now - days
              found == old_logs(logs, cutoff_date)
          IN  /\ logs' = unlink(logs, found)
              /\ call' = [fn |-> "cleanup_old_logs", days |-> days,
                          returned |-> TRUE, result |-> Cardinality(found),
                          table |-> logs]
    /\ UNCHANGED <<limVars, clientVars, envVars, products, committed,
                   n_commits, n_rollbacks, syncVars>>

(***************************************************************************)
(* ProductSyncService.sync_single_product(external_id): the single-record  *)
(* entry point.  The identifier only shapes the URL of the request; the    *)
(* record synchronised is the one the external API answers with.           *)
(***************************************************************************)
\* the responses the external API gives to GET /products/{id}: a product
\* object, the empty object, no content, not found, a server error, or no
\* answer
SingleOutcomes ==
    {[kind |-> "response", status_code |-> 200, body |-> "json_other"],
     [kind |-> "response", status_code |-> 200, body |-> "json_empty"],
     [kind |-> "response", status_code |-> 204, body |-> "not_json"],
     [kind |-> "response", status_code |-> 404, body |-> "not_json"],
     [kind |-> "response", status_code |-> 500, body |-> "not_json"],
     [kind |-> "raise", exc |-> "Timeout"]}

\* if not ext_product: raise UserError
not_found(value) == value \in {"None", "json_empty"}

\* lines 313-320, up to the call of api_client.get
SyncSingleProductCall ==
    /\ s_pc = "idle"
    /\ c_pc = "idle"
    /\ Len(history) < MaxRuns
    /\ s_pc' = "fetching_one"
    /\ tokens_acquired' = 1
    /\ max_retries' = SyncMaxRetries
    /\ make_request_entry
    /\ history' = Append(history,
                         [sync_batch_id |-> 0, dry_run |-> FALSE,
                          limit |-> NoLimit, outcome |-> "running",
                          summary |-> NewSummary(0),
                          items |-> <<>>, tokens |-> 0,
                          products_before |-> products,
                          logs_before |-> logs,
                          products_after |-> products,
                          logs_after |-> logs])
    /\ UNCHANGED <<limVars, call, envVars, dbVars, s_dry_run, s_limit,
                   sync_batch_id, external_products, s_index, summary,
                   batch_seq>>

\* one attempt of the request for the record
SingleFetchAttempt ==
    /\ s_pc = "fetching_one"
    /\ \E o \in SingleOutcomes : Attempt(o)

SingleFetchExhausted ==
    /\ s_pc = "fetching_one"
    /\ Exhausted

\* the run ends: what it leaves in the history
EndSingle(outcome, batch, items, rows, lg) ==
    history' = [history EXCEPT ![Len(history)] =
                   [@ EXCEPT !.outcome = outcome, !.sync_batch_id = batch,
                             !.items = items,
                             !.tokens = tokens_acquired,
                             !.products_after = rows,
                             !.logs_after = lg]]

\* api_client.get returned or raised: lines 320-331.  Nothing catches an
\* exception here, and only the normal path commits.
SingleReturn ==
    /\ s_pc = "fetching_one"
    /\ c_pc = "done"
    /\ ClientDropped
    /\ s_pc' = "idle"
    /\ IF c_result.kind = "APIClientError" \/ not_found(c_result.value)
       THEN /\ EndSingle("raised", 0, <<>>, products, logs)
            /\ UNCHANGED <<envVars, dbVars, sync_batch_id, batch_seq>>
       ELSE \E d \in Records : \E t1 \in now..MaxClock : \E t2 \in t1..MaxClock :
              LET batch == batch_seq + 1
                  result == sync_single_product(products, logs, d, batch,
                                                FALSE, now, t1, t2)
              IN  /\ batch_seq' = batch
                  /\ sync_batch_id' = batch
                  /\ now' = result.clock
                  /\ products' = result.products
                  /\ logs' = result.logs
                  /\ IF result.raised
                     THEN /\ UNCHANGED <<committed, n_commits>>
                          /\ EndSingle("raised", batch, <<d>>,
                                       result.products, result.logs)
                     ELSE /\ committed' = [products |-> result.products,
                                           logs |-> result.logs]
                          /\ n_commits' = n_commits + 1
                          /\ EndSingle("returned", batch, <<d>>,
                                       result.products, result.logs)
                  /\ UNCHANGED <<catalog, n_rollbacks>>
    /\ UNCHANGED <<limVars, call, max_retries, s_dry_run, s_limit,
                   external_products, s_index, summary, tokens_acquired>>

(***************************************************************************)
(* The rows the database holds before the first run: nothing, a product    *)
(* synced earlier, a product entered by hand, two synced products, or a    *)
(* synced product later marked with mark_as_error.                         *)
(***************************************************************************)
SyncedProduct(external_id, sku, name) ==
    [name |-> name, external_id |-> external_id, external_sku |-> sku,
     default_code |-> sku, list_price |-> 0, is_from_external |-> TRUE,
     last_sync_date |-> 0, sync_status |-> "synced",
     sync_error_message |-> NULL]

ManualProduct(sku, name) ==
    [ProductDefaults EXCEPT !.name = name, !.default_code = sku]

\* a synced product after ProductTemplate.mark_as_error(error_message)
ErrorProduct(external_id, sku, name) ==
    [SyncedProduct(external_id, sku, name) EXCEPT
        !.sync_status = "error", !.sync_error_message = "error_message"]

InitialRepos ==
    {<<>>,
     <<ErrorProduct("2", "B", "n0")>>,
     <<SyncedProduct("1", "A", "n0")>>,
     <<ManualProduct("B", "n1")>>,
     <<SyncedProduct("1", "A", "n1"), SyncedProduct("2", "B", "n1")>>}

(***************************************************************************)
(* RateLimiter and AdaptiveRateLimiter (services/rate_limiter.py).         *)
(*                                                                         *)
(* Time is counted in ticks, TicksPerWindow ticks to one window of         *)
(* per_seconds seconds, and tokens in units of 1/TicksPerWindow token, so  *)
(* that elapsed * (rate / per_seconds) tokens are elapsed * rate units     *)
(* and every value of the code's float arithmetic is an integer here.      *)
(***************************************************************************)
Threads == 1..NumThreads

Max(a, b) == IF a >= b THEN a ELSE b

CeilDiv(a, b) == (a + b - 1) \div b

\* 1.0 token
OneToken == TicksPerWindow

\* float(rate): the capacity of a bucket of the given rate
Float(r) == r * OneToken

\* a duration in ticks, as the fraction num / den
NoWait == [num |-> 0, den |-> 1]

\* RateLimiter._refill_tokens: the tokens after a refill, elapsed ticks
\* after the last one
refill_tokens(tok, maxtok, r, elapsed) == Min(maxtok, tok + elapsed * r)

\* RateLimiter._wait_time: tokens_needed * time_per_token
\*   = ((OneToken - tok) / OneToken) * (TicksPerWindow / r) ticks
wait_time_full_token(tok, r) ==
    IF tok >= OneToken THEN NoWait
    ELSE [num |-> OneToken * TicksPerWindow, den |-> OneToken * r]

wait_time_of(tok, r) ==
    IF tok >= OneToken THEN NoWait
    ELSE [num |-> (OneToken - tok) * TicksPerWindow, den |-> OneToken * r]

\* self.tokens -= 1.0
consume_nothing(tok) == tok

consume(tok) == tok - OneToken

\* if self.tokens >= 1.0   (try_acquire)
try_acquire_grants_any(tok) == tok > 0

try_acquire_grants(tok) == tok >= OneToken

\* self.rate = min(self.max_rate, self.rate + 1)
rate_after_success_uncapped(r, maxr) == r + 1

rate_after_success(r, maxr) == Min(maxr, r + 1)

\* self.rate = max(self.min_rate, self.rate // 2)
rate_after_rate_limit_error_rounded_up(r, minr) == Max(minr, (r + 1) \div 2)

rate_after_rate_limit_error(r, minr) == Max(minr, r \div 2)

AcquireOps == {"wait_if_needed", "try_acquire"}

\* the try_acquire calls made so far, while they are the only calls made
FreshTries == [pure |-> TRUE, granted |-> 0, last_granted_at |-> 0]
Spoiled == [pure |-> FALSE, granted |-> 0, last_granted_at |-> 0]

NewAcct == [started |-> 0, denied |-> 0, added |-> 0]

\* what try_acquire returned: "True" or "False" ("None": not called yet)
ReturnedBool(b) == IF b THEN "True" ELSE "False"

(***************************************************************************)
(* RateLimiter.__init__ / AdaptiveRateLimiter.__init__ at tick 0.          *)
(***************************************************************************)
NewLimiter(isAdaptive, r, minr, maxr) ==
    /\ adaptive = isAdaptive
    /\ rate = r
    /\ tokens = Float(r)
    /\ max_tokens = Float(r)
    /\ last_refill = 0
    /\ lock = 0
    /\ min_rate = minr
    /\ max_rate = maxr
    /\ initial_rate = r
    /\ success_count = 0

ThreadsIdle ==
    /\ time = 0
    /\ th_pc = [t \in Threads |-> "idle"]
    /\ th_result = "None"
    /\ wait_time = NoWait
    /\ wake_at = 0
    /\ acct = NewAcct
    /\ tries = FreshTries
    /\ since_error = -1

(***************************************************************************)
(* A thread enters wait_if_needed or try_acquire; it then stands before    *)
(* the method's `with self.lock` until the lock is free.                   *)
(***************************************************************************)
Enter(t, op) ==
    /\ th_pc[t] = "idle"
    /\ th_pc' = [th_pc EXCEPT ![t] = op]
    /\ acct' = [acct EXCEPT !.started = @ + 1]
    /\ tries' = IF op = "try_acquire" THEN tries ELSE Spoiled
    /\ UNCHANGED <<appVars, limiterVars, time, th_result, wait_time, wake_at,
                   test_duration, since_error>>

CallOp(t, op) ==
    /\ test_duration = 0
    /\ acct.started < MaxAcquires
    /\ Enter(t, op)

Call == \E t \in Threads, op \in AcquireOps : CallOp(t, op)

\* a thread outside the limiter calls one of the other methods, which run
\* from `with self.lock` to their end once the lock is free
Locked(t) ==
    /\ test_duration = 0
    /\ th_pc[t] = "idle"
    /\ lock = 0

\* time passes
Tick ==
    /\ test_duration = 0
    /\ time < MaxTime
    /\ time' = time + 1
    /\ UNCHANGED <<appVars, limiterVars, th_pc, th_result, wait_time,
                   wake_at, test_duration, ghostVars>>

(***************************************************************************)
(* RateLimiter.wait_if_needed, up to time.sleep when it has to wait and to *)
(* its end otherwise.                                                      *)
(***************************************************************************)
WaitIfNeeded(t) ==
    /\ th_pc[t] = "wait_if_needed"
    /\ lock = 0
    /\ LET refilled == refill_tokens(tokens, max_tokens, rate,
                                     time - last_refill)
           wt == wait_time_of(refilled, rate)
       IN  /\ last_refill' = time
           /\ IF wt.num > 0
              THEN /\ tokens' = refilled
                   /\ lock' = t
                   /\ th_pc' = [th_pc EXCEPT ![t] = "sleeping"]
                   /\ wait_time' = wt
                   /\ wake_at' = time + CeilDiv(wt.num, wt.den)
                   /\ acct' = [acct EXCEPT !.added = @ + refilled - tokens]
              ELSE /\ tokens' = consume(refilled)
                   /\ lock' = 0
                   /\ th_pc' = [th_pc EXCEPT ![t] = "idle"]
                   /\ acct' = [acct EXCEPT !.added = @ + refilled - tokens]
                                  /\ UNCHANGED <<wait_time, wake_at>>
    /\ UNCHANGED <<appVars, adaptive, rate, max_tokens, min_rate, max_rate,
                   initial_rate, success_count, time, test_duration, tries,
                   since_error, th_result>>

\* time.sleep(wait_time) returns, at wake_at or later: lines 114-120
WakeUp(t) ==
    /\ th_pc[t] = "sleeping"
    /\ lock = t
    /\ LET woken == Max(time, wake_at)
           refilled == refill_tokens(tokens, max_tokens, rate,
                                     woken - last_refill)
       IN  /\ time' = woken
           /\ last_refill' = woken
           /\ tokens' = consume(refilled)
           /\ acct' = [acct EXCEPT !.added = @ + refilled - tokens]
    /\ lock' = 0
    /\ th_pc' = [th_pc EXCEPT ![t] = "idle"]
    /\ wait_time' = NoWait
    /\ wake_at' = 0
    /\ UNCHANGED <<appVars, adaptive, rate, max_tokens, min_rate, max_rate,
                   initial_rate, success_count, test_duration, tries,
                   since_error, th_result>>

\* RateLimiter.try_acquire
TryAcquire(t) ==
    /\ th_pc[t] = "try_acquire"
    /\ lock = 0
    /\ LET refilled == refill_tokens(tokens, max_tokens, rate,
                                     time - last_refill)
           granted == try_acquire_grants(refilled)
       IN  /\ last_refill' = time
           /\ tokens' = IF granted THEN consume(refilled) ELSE refilled
           /\ th_result' = ReturnedBool(granted)
           /\ acct' = [acct EXCEPT !.added = @ + refilled - tokens,
                                   !.denied = IF granted THEN @ ELSE @ + 1]
           /\ tries' = IF tries.pure /\ granted
                       THEN [tries EXCEPT !.granted = @ + 1,
                                          !.last_granted_at = time]
                       ELSE tries
    /\ th_pc' = [th_pc EXCEPT ![t] = "idle"]
    /\ UNCHANGED <<appVars, adaptive, rate, max_tokens, lock, min_rate,
                   max_rate, initial_rate, success_count, time, wait_time,
                   wake_at, test_duration, since_error>>

\* RateLimiter.get_tokens
GetTokens(t) ==
    /\ Locked(t)
    /\ LET refilled == refill_tokens(tokens, max_tokens, rate,
                                     time - last_refill)
       IN  /\ last_refill' = time
           /\ tokens' = refilled
           /\ acct' = [acct EXCEPT !.added = @ + refilled - tokens]
    /\ tries' = Spoiled
    /\ UNCHANGED <<appVars, th_pc, adaptive, rate, max_tokens, lock,
                   min_rate, max_rate, initial_rate, success_count, time,
                   wait_time, wake_at, test_duration, since_error,
                   th_result>>

\* RateLimiter.reset
Reset(t) ==
    /\ Locked(t)
    /\ tokens' = max_tokens
    /\ last_refill' = time
    /\ acct' = [acct EXCEPT !.added = @ + max_tokens - tokens]
    /\ tries' = Spoiled
    /\ UNCHANGED <<appVars, th_pc, adaptive, rate, max_tokens, lock,
                   min_rate, max_rate, initial_rate, success_count, time,
                   wait_time, wake_at, test_duration, since_error,
                   th_result>>

\* AdaptiveRateLimiter.report_success
ReportSuccess(t) ==
    /\ Locked(t)
    /\ adaptive
    /\ IF success_count + 1 >= SuccessThreshold
       THEN /\ rate' = rate_after_success(rate, max_rate)
            /\ max_tokens' = Float(rate_after_success(rate, max_rate))
            /\ success_count' = 0
       ELSE /\ success_count' = success_count + 1
            /\ UNCHANGED <<rate, max_tokens>>
    /\ since_error' = IF since_error = -1 \/ success_count' = 0 THEN -1
                      ELSE since_error + 1
    /\ tries' = Spoiled
    /\ UNCHANGED <<appVars, th_pc, adaptive, tokens, last_refill, lock,
                   min_rate, max_rate, initial_rate, time, wait_time,
                   wake_at, test_duration, acct, th_result>>

\* AdaptiveRateLimiter.report_rate_limit_error
ReportRateLimitError(t) ==
    /\ Locked(t)
    /\ adaptive
    /\ rate' = rate_after_rate_limit_error(rate, min_rate)
    /\ max_tokens' = Float(rate_after_rate_limit_error(rate, min_rate))
    /\ success_count' = 0
    /\ since_error' = 0
    /\ tries' = Spoiled
    /\ UNCHANGED <<appVars, th_pc, adaptive, tokens, last_refill, lock,
                   min_rate, max_rate, initial_rate, time, wait_time,
                   wake_at, test_duration, acct, th_result>>

\* AdaptiveRateLimiter.reset_to_initial
ResetToInitial_keeps_tokens(t) ==
    /\ Locked(t)
    /\ adaptive
    /\ rate' = initial_rate
    /\ max_tokens' = Float(initial_rate)
    /\ success_count' = 0
    /\ last_refill' = time
    /\ tries' = Spoiled
    /\ since_error' = IF since_error = -1 THEN -1 ELSE 0
    /\ UNCHANGED <<appVars, th_pc, adaptive, tokens, lock, min_rate, max_rate,
                   initial_rate, time, wait_time, wake_at, test_duration,
                   th_result, acct>>

ResetToInitial(t) ==
    /\ Locked(t)
    /\ adaptive
    /\ rate' = initial_rate
    /\ max_tokens' = Float(initial_rate)
    /\ tokens' = Float(initial_rate)
    /\ success_count' = 0
    /\ last_refill' = time
    /\ acct' = [acct EXCEPT !.added = @ + Float(initial_rate) - tokens]
    /\ tries' = Spoiled
    /\ since_error' = IF since_error = -1 THEN -1 ELSE 0
    /\ UNCHANGED <<appVars, th_pc, adaptive, lock, min_rate, max_rate,
                   initial_rate, time, wait_time, wake_at, test_duration,
                   th_result>>

WaitIfNeededStep == \E t \in Threads : WaitIfNeeded(t)
WakeUpStep == \E t \in Threads : WakeUp(t)
TryAcquireStep == \E t \in Threads : TryAcquire(t)
GetTokensStep == \E t \in Threads : GetTokens(t)
ResetStep == \E t \in Threads : Reset(t)
ReportSuccessStep == \E t \in Threads : ReportSuccess(t)
ReportRateLimitErrorStep == \E t \in Threads : ReportRateLimitError(t)
ResetToInitialStep == \E t \in Threads : ResetToInitial(t)

(***************************************************************************)
(* A sustained run: one thread calls wait_if_needed back to back while     *)
(* fewer than test_duration ticks have passed since the start at tick 0.   *)
(***************************************************************************)
SustainedCall ==
    /\ test_duration > 0
    /\ time < test_duration
    /\ Enter(1, "wait_if_needed")

\* the limiter of a behaviour that does not use it
LimiterUnused ==
    /\ NewLimiter(FALSE, 1, 1, 1)
    /\ ThreadsIdle
    /\ test_duration = 0

(***************************************************************************)
(* Specifications.                                                         *)
(***************************************************************************)
SyncIdle ==
    /\ s_pc = "idle"
    /\ s_dry_run = FALSE
    /\ s_limit = NoLimit
    /\ sync_batch_id = 0
    /\ external_products = <<>>
    /\ s_index = 0
    /\ summary = NewSummary(0)
    /\ tokens_acquired = 0
    /\ batch_seq = 0
    /\ history = <<>>

EmptyDatabase ==
    /\ now = 0
    /\ catalog = <<>>
    /\ products = <<>>
    /\ logs = <<>>
    /\ committed = [products |-> <<>>, logs |-> <<>>]
    /\ n_commits = 0
    /\ n_rollbacks = 0

ClientIdle ==
    /\ c_pc = "idle"
    /\ attempt = 0
    /\ last_exception = "None"
    /\ c_result = NoResult
    /\ http_requests = 0
    /\ sleeps = <<>>
    /\ outcomes = <<>>

\* the pure helpers of APIClient, applied to every input of the bounded sets
InitFn ==
    /\ LimiterUnused
    /\ call \in ShouldRetryCalls \cup CalculateBackoffCalls
    /\ max_retries = 5
    /\ ClientIdle
    /\ SyncIdle
    /\ EmptyDatabase

NextFn == CallShouldRetry \/ CallCalculateBackoff

SpecFn == InitFn /\ [][NextFn]_vars

\* the limit of sync_products applied to every response and limit argument
InitLimit ==
    /\ LimiterUnused
    /\ call \in [fn : {"apply_limit"}, items : Catalogs,
                  limit : {NoLimit} \cup {[given |-> TRUE, value |-> v] :
                                             v \in 0..MaxLimitArg},
                  returned : {FALSE}, result : {<<>>}, total : {0}]
    /\ max_retries = 5
    /\ ClientIdle
    /\ SyncIdle
    /\ EmptyDatabase

NextLimit == CallApplyLimit

SpecLimit == InitLimit /\ [][NextLimit]_vars

\* update_from_external applied to every row and record of the bounded sets
InitUpdate ==
    /\ LimiterUnused
    /\ call \in {c \in [fn : {"update_from_external"}, row : UpdateRows,
                        external_data : UpdateRecords, t : 0..MaxClock,
                        returned : {FALSE}, raised : {FALSE},
                        result : {FALSE}, after : UpdateRows] :
                      c.after = c.row}
    /\ max_retries = 5
    /\ ClientIdle
    /\ SyncIdle
    /\ EmptyDatabase

NextUpdate == CallUpdateFromExternal

SpecUpdate == InitUpdate /\ [][NextUpdate]_vars

\* an APIClient constructed with some max_retries, called any number of times
InitClient ==
    /\ LimiterUnused
    /\ call = NoCall
    /\ max_retries \in 0..MaxRetriesBound
    /\ ClientIdle
    /\ SyncIdle
    /\ EmptyDatabase

NextClient == MakeRequest \/ AttemptStep \/ Exhausted

SpecClient == InitClient /\ [][NextClient]_vars

\* _make_request is sequential code and session.request returns or raises
\* within its timeout: an enabled loop step is eventually taken
FairSpecClient ==
    SpecClient /\ WF_vars(AttemptStep) /\ WF_vars(Exhausted)

\* the sync service run against a database and an external catalog
Init ==
    /\ LimiterUnused
    /\ call = NoCall
    /\ max_retries = 5
    /\ ClientIdle
    /\ SyncIdle
    /\ now = 0
    /\ catalog \in Catalogs
    /\ products \in InitialRepos
    /\ logs = <<>>
    /\ committed = [products |-> products, logs |-> <<>>]
    /\ n_commits = 0
    /\ n_rollbacks = 0

Next ==
    \/ SyncProductsCall
    \/ FetchAttempt
    \/ FetchExhausted
    \/ FetchReturn
    \/ ProcessRecord
    \/ ProcessRecordRaises
    \/ SyncFinish

Spec == Init /\ [][Next]_vars

\* the single-record entry point run against a database
InitSingle ==
    /\ LimiterUnused
    /\ call = NoCall
    /\ max_retries = 5
    /\ ClientIdle
    /\ SyncIdle
    /\ now = 0
    /\ catalog = <<>>
    /\ products \in InitialRepos
    /\ logs = <<>>
    /\ committed = [products |-> products, logs |-> <<>>]
    /\ n_commits = 0
    /\ n_rollbacks = 0

NextSingle ==
    \/ SyncSingleProductCall
    \/ SingleFetchAttempt
    \/ SingleFetchExhausted
    \/ SingleReturn

SpecSingle == InitSingle /\ [][NextSingle]_vars

\* cleanup_old_logs run once on a log table, on some day
InitCleanup ==
    /\ LimiterUnused
    /\ call = NoCall
    /\ max_retries = 5
    /\ ClientIdle
    /\ SyncIdle
    /\ now \in 0..MaxDay
    /\ catalog = <<>>
    /\ products = <<>>
    /\ logs \in LogTables(now)
    /\ committed = [products |-> <<>>, logs |-> <<>>]
    /\ n_commits = 0
    /\ n_rollbacks = 0

NextCleanup == CleanupOldLogs

SpecCleanup == InitCleanup /\ [][NextCleanup]_vars

\* the state of the rest of the add-on in a behaviour of the limiter alone
AppUnused ==
    /\ call = NoCall
    /\ max_retries = 5
    /\ ClientIdle
    /\ SyncIdle
    /\ EmptyDatabase

\* one RateLimiter shared by the threads
InitRateLimiter ==
    /\ AppUnused
    /\ \E r \in 1..MaxRate : NewLimiter(FALSE, r, 1, r)
    /\ ThreadsIdle
    /\ test_duration = 0

NextRateLimiter ==
    \/ Call
    \/ Tick
    \/ WaitIfNeededStep
    \/ WakeUpStep
    \/ TryAcquireStep
    \/ GetTokensStep
    \/ ResetStep

SpecRateLimiter == InitRateLimiter /\ [][NextRateLimiter]_vars

\* a thread that can take the lock does so, and time.sleep returns
FairSpecRateLimiter ==
    /\ SpecRateLimiter
    /\ \A t \in Threads : /\ WF_vars(WaitIfNeeded(t))
                          /\ WF_vars(WakeUp(t))

\* one RateLimiter or AdaptiveRateLimiter shared by the threads, which call
\* its methods in any order while time passes
InitLimiter ==
    /\ AppUnused
    /\ \E isAdaptive \in BOOLEAN, r \in 1..MaxRate :
          \E minr \in 1..Min(2, r) :
             /\ (~isAdaptive => minr = 1)
             /\ NewLimiter(isAdaptive, r, minr,
                           IF isAdaptive THEN MaxRate ELSE r)
    /\ ThreadsIdle
    /\ test_duration = 0

NextLimiter ==
    \/ Call
    \/ Tick
    \/ WaitIfNeededStep
    \/ WakeUpStep
    \/ TryAcquireStep
    \/ GetTokensStep
    \/ ResetStep
    \/ ReportSuccessStep
    \/ ReportRateLimitErrorStep
    \/ ResetToInitialStep

SpecLimiter == InitLimiter /\ [][NextLimiter]_vars

\* an AdaptiveRateLimiter constructed with any rate, min_rate and max_rate
\* (the constructor checks none of them), then given feedback only
InitAdaptive ==
    /\ AppUnused
    /\ \E r \in 1..MaxRate, minr \in 1..MaxRate, maxr \in 1..MaxRate :
          NewLimiter(TRUE, r, minr, maxr)
    /\ ThreadsIdle
    /\ test_duration = 0

NextAdaptive ==
    \/ ReportSuccessStep
    \/ ReportRateLimitErrorStep
    \/ ResetToInitialStep

SpecAdaptive == InitAdaptive /\ [][NextAdaptive]_vars

\* the sustained run of one thread on a fresh RateLimiter
InitSustained ==
    /\ AppUnused
    /\ \E r \in 1..MaxRate : NewLimiter(FALSE, r, 1, r)
    /\ ThreadsIdle
    /\ test_duration \in 1..MaxDuration

NextSustained == SustainedCall \/ WaitIfNeededStep \/ WakeUpStep

SpecSustained == InitSustained /\ [][NextSustained]_vars


(***************************************************************************)
(* Helpers of the properties.                                              *)
(***************************************************************************)
RECURSIVE Pow2(_)
Pow2(k) == IF k <= 0 THEN 1 ELSE 2 * Pow2(k - 1)

\* the delay the retry policy prescribes before the retry that follows attempt n
ExpectedBackoff(n) == IF Pow2(n - 1) <= 60 THEN Pow2(n - 1) ELSE 60

IsRetryableStatus(status_code) ==
    (500 <= status_code /\ status_code <= 599) \/ status_code \in {429, 408}

IsTerminal4xx(status_code) ==
    400 <= status_code /\ status_code <= 499 /\ status_code \notin {429, 408}

EveryAttemptRetryableStatus ==
    /\ outcomes # <<>>
    /\ \A i \in 1..Len(outcomes) :
          /\ outcomes[i].kind = "response"
          /\ IsRetryableStatus(outcomes[i].status_code)

EveryAttemptNetworkError ==
    /\ outcomes # <<>>
    /\ \A i \in 1..Len(outcomes) :
          /\ outcomes[i].kind = "raise"
          /\ outcomes[i].exc \in {"Timeout", "ConnectionError"}

IsExhaustedError(r) ==
    /\ r.kind = "APIClientError"
    /\ r.msg = "Request failed after"
    /\ r.attempts = max_retries

\* a record the engine must reject: external identifier or SKU missing or
\* empty
InvalidRecord(d) ==
    /\ is_dict(d)
    /\ \/ "id" \notin DOMAIN d
       \/ "sku" \notin DOMAIN d
       \/ d["sku"] = ""

\* the product rows that match record d by identifier or by SKU
Matching(rows, d) ==
    {i \in 1..Len(rows) :
        \/ ("id" \in DOMAIN d /\ rows[i].external_id = str(d["id"]))
        \/ ("sku" \in DOMAIN d /\ rows[i].external_sku = d["sku"])
        \/ ("sku" \in DOMAIN d /\ rows[i].default_code = d["sku"])}

\* N valid records with pairwise distinct identifiers and SKUs
DistinctValidRecords(items) ==
    /\ \A i \in 1..Len(items) : is_dict(items[i]) /\ ~InvalidRecord(items[i])
    /\ \A i, j \in 1..Len(items) :
          i # j => /\ items[i]["id"] # items[j]["id"]
                   /\ items[i]["sku"] # items[j]["sku"]

\* the log rows a run added
NewLogs(h) == SubSeq(h.logs_after, Len(h.logs_before) + 1, Len(h.logs_after))

Completed(h) == h.outcome = "returned"

(***************************************************************************)
(* C1 (as claimed): two successive non-dry runs of sync_products against   *)
(* the same catalog of N valid records with distinct ids and SKUs, from a  *)
(* repository with no matching entity: the first run reports N creates,    *)
(* the second N skips with 0 creates and 0 updates, and exactly N          *)
(* entities have been added.                                               *)
(***************************************************************************)
C1_Idempotency ==
    (/\ Len(history) = 2
     /\ Completed(history[1]) /\ Completed(history[2])
     /\ ~history[1].dry_run /\ ~history[2].dry_run
     /\ history[1].items = history[2].items
     /\ DistinctValidRecords(history[1].items)
     /\ \A i \in 1..Len(history[1].items) :
           Matching(history[1].products_before, history[1].items[i]) = {})
        => LET N == Len(history[1].items) IN
           /\ history[1].summary.create = N
           /\ history[2].summary.skip = N
           /\ history[2].summary.create = 0
           /\ history[2].summary.update = 0
           /\ Len(history[2].products_after)
                  = Len(history[1].products_before) + N

C3_OneLogEntryPerRecord ==
    /\ \A r \in 1..Len(history) :
          (Completed(history[r]) /\ ~history[r].dry_run)
              => LET h == history[r]
                     new == NewLogs(h)
                 IN  /\ Len(new) = Len(h.items)
                     /\ SubSeq(h.logs_after, 1, Len(h.logs_before))
                            = h.logs_before
                     /\ \A i \in 1..Len(new) :
                           /\ new[i].sync_batch_id = h.sync_batch_id
                           /\ \/ /\ new[i].status = "success"
                                 /\ new[i].operation
                                        \in {"create", "update", "skip"}
                                 /\ ~InvalidRecord(h.items[i])
                              \/ /\ new[i].status = "error"
                                 /\ new[i].operation = "error"
                     /\ Cardinality({i \in 1..Len(new) :
                                        new[i].status = "error"})
                            = h.summary.errors
    /\ \A r, q \in 1..Len(history) :
          r # q => history[r].sync_batch_id # history[q].sync_batch_id
    /\ (s_pc = "processing" /\ ~s_dry_run)
          => Len(logs) = Len(LastRun.logs_before) + s_index - 1

C3_Witness ==
    /\ Len(history) = 2
    /\ Completed(history[1]) /\ Completed(history[2])
    /\ ~history[2].dry_run
    /\ Len(history[2].items) = 2
    /\ history[2].summary.errors = 1
    /\ history[2].summary.update = 1
    /\ Len(NewLogs(history[2])) = 2

(***************************************************************************)
(* C4: a run of sync_products with dry_run=True creates no product,        *)
(* modifies no product, persists no log entry and neither commits nor      *)
(* rolls back: none of its steps changes the database.                     *)
(***************************************************************************)
C4_DryRunChangesNothing ==
    [][((s_pc # "idle" /\ s_dry_run) \/ (s_pc = "idle" /\ s_dry_run'))
          => /\ products' = products
             /\ logs' = logs
             /\ committed' = committed
             /\ n_commits' = n_commits
             /\ n_rollbacks' = n_rollbacks]_vars

C4_Witness ==
    /\ Len(history) >= 1
    /\ Completed(LastRun)
    /\ LastRun.dry_run
    /\ LastRun.summary.create = 1
    /\ LastRun.summary.update = 1
    /\ LastRun.products_after = LastRun.products_before
    /\ LastRun.logs_after = LastRun.logs_before

(***************************************************************************)
(* C5: one call of _make_request issues at most max_retries HTTP requests, *)
(* exactly one per attempt, and always terminates, with either a returned  *)
(* payload or an APIClientError.                                           *)
(***************************************************************************)
C5_BoundedRequestsAndTermination ==
    /\ [](/\ http_requests <= max_retries
          /\ http_requests = attempt
          /\ http_requests = Len(outcomes)
          /\ (c_pc = "done" => c_result.kind \in {"return", "APIClientError"}))
    /\ ((c_pc = "loop") ~> (c_pc = "done"))

C5_Witness ==
    /\ c_pc = "done"
    /\ max_retries >= 2
    /\ http_requests = max_retries
    /\ c_result.kind = "return"

(***************************************************************************)
(* C6 (as claimed): when every attempt returns a retryable status (5xx,    *)
(* 429, 408) the call makes exactly max_retries requests and then fails    *)
(* with the attempts-exhausted error 'Request failed after <max_retries>   *)
(* attempts'.                                                              *)
(***************************************************************************)
C6_AllRetryableStatusesExhaust ==
    (c_pc = "done" /\ EveryAttemptRetryableStatus)
        => /\ http_requests = max_retries
           /\ IsExhaustedError(c_result)

(***************************************************************************)
(* C7: when every attempt raises a timeout or connection error the call    *)
(* makes exactly max_retries requests, sleeps backoff(1), ...,             *)
(* backoff(max_retries-1) and not after the final attempt, then fails with *)
(* the attempts-exhausted error carrying the last exception.               *)
(***************************************************************************)
C7_NetworkErrorsExhaust ==
    (c_pc = "done" /\ EveryAttemptNetworkError)
        => /\ http_requests = max_retries
           /\ sleeps = [i \in 1..(max_retries - 1) |-> ExpectedBackoff(i)]
           /\ IsExhaustedError(c_result)
           /\ c_result.cause = outcomes[Len(outcomes)].exc

C7_Witness ==
    /\ c_pc = "done"
    /\ EveryAttemptNetworkError
    /\ max_retries = 3
    /\ sleeps = <<1, 2>>

(***************************************************************************)
(* C8: a 4xx response other than 429 and 408 fails the call immediately    *)
(* with APIClientError: after exactly one HTTP request and no backoff      *)
(* sleep when it answers the first attempt, and in any case without a      *)
(* further request or sleep, however many attempts remain.                 *)
(***************************************************************************)
C8_Terminal4xxFailsImmediately ==
    \A i \in 1..Len(outcomes) :
        (outcomes[i].kind = "response" /\ IsTerminal4xx(outcomes[i].status_code))
            => /\ c_pc = "done"
               /\ i = Len(outcomes)
               /\ http_requests = i
               /\ Len(sleeps) = i - 1
               /\ c_result = ClientError(outcomes[i].status_code)

C8_Witness ==
    /\ c_pc = "done"
    /\ max_retries = 3
    /\ outcomes = <<[kind |-> "response", status_code |-> 404,
                     body |-> "not_json"]>>
    /\ http_requests = 1
    /\ sleeps = <<>>

(***************************************************************************)
(* C9: _should_retry(response, attempt) is true exactly when attempt <     *)
(* max_retries and the status is in 500..599 or is 429 or 408; so 500,     *)
(* 502, 503, 429, 408 are retried while attempts remain and 400, 401,      *)
(* 403, 404 never.                                                         *)
(***************************************************************************)
C9_ShouldRetryTable ==
    (call.fn = "should_retry" /\ call.returned)
        => /\ call.result = (/\ call.attempt < call.max_retries
                             /\ IsRetryableStatus(call.status_code))
           /\ (call.status_code \in {500, 502, 503, 429, 408}
                   /\ call.attempt < call.max_retries => call.result)
           /\ (call.status_code \in {400, 401, 403, 404} => ~call.result)

C9_Witness ==
    /\ call.fn = "should_retry"
    /\ call.returned
    /\ call.status_code = 408
    /\ call.attempt = 1
    /\ call.max_retries = 3
    /\ call.result

(***************************************************************************)
(* C10: _calculate_backoff(n) = min(2^(n-1), 60) for n >= 1: 1, 2, 4, 8,   *)
(* 16, 32, then 60; non-decreasing in n and never above 60 seconds.        *)
(***************************************************************************)
C10_BackoffFormula ==
    (call.fn = "calculate_backoff" /\ call.returned)
        => /\ call.result = ExpectedBackoff(call.attempt)
           /\ call.result <= 60
           /\ (call.attempt <= 6 => call.result = Pow2(call.attempt - 1))
           /\ (call.attempt >= 7 => call.result = 60)
           /\ \A m \in 1..call.attempt : calculate_backoff(m) <= call.result

C10_Witness ==
    /\ call.fn = "calculate_backoff"
    /\ call.returned
    /\ call.attempt = 10
    /\ call.result = 60

(***************************************************************************)
(* C11: when the first k attempts (k < max_retries) each get a retryable   *)
(* status and attempt k+1 gets a 2xx status, the call returns that         *)
(* response's payload after exactly k+1 HTTP requests, having slept        *)
(* backoff(1), ..., backoff(k) in that order, and issues no request after  *)
(* the success.                                                            *)
(***************************************************************************)
C11_RetryThenSuccess ==
    \A k \in 0..(Len(outcomes) - 1) :
        (/\ \A i \in 1..k : /\ outcomes[i].kind = "response"
                            /\ IsRetryableStatus(outcomes[i].status_code)
         /\ outcomes[k + 1].kind = "response"
         /\ IsSuccess(outcomes[k + 1].status_code))
            => /\ c_pc = "done"
               /\ Len(outcomes) = k + 1
               /\ http_requests = k + 1
               /\ sleeps = [i \in 1..k |-> ExpectedBackoff(i)]
               /\ c_result.kind = "return"
               /\ (outcomes[k + 1].body # "not_json"
                      => c_result.value = outcomes[k + 1].body)

C11_Witness ==
    /\ c_pc = "done"
    /\ max_retries = 3
    /\ Len(outcomes) = 3
    /\ outcomes[1].kind = "response" /\ outcomes[1].status_code = 500
    /\ outcomes[2].kind = "response" /\ outcomes[2].status_code = 429
    /\ outcomes[3].kind = "response" /\ outcomes[3].status_code = 200
    /\ outcomes[3].body = "json_items"
    /\ sleeps = <<1, 2>>
    /\ c_result = Returned("json_items")

(***************************************************************************)
(* C12: a 2xx response whose body is not JSON (a 204 without body          *)
(* included) makes the call return None: nothing is raised, and no retry   *)
(* and no backoff sleep follows it.                                        *)
(***************************************************************************)
C12_UnparseableSuccessReturnsNone ==
    \A i \in 1..Len(outcomes) :
        (/\ outcomes[i].kind = "response"
         /\ IsSuccess(outcomes[i].status_code)
         /\ outcomes[i].body = "not_json")
            => /\ c_pc = "done"
               /\ c_result = [kind |-> "return", value |-> "None"]
               /\ i = Len(outcomes)
               /\ http_requests = i
               /\ Len(sleeps) = i - 1

C12_Witness ==
    /\ c_pc = "done"
    /\ outcomes = <<[kind |-> "response", status_code |-> 204,
                     body |-> "not_json"]>>
    /\ c_result = [kind |-> "return", value |-> "None"]
    /\ sleeps = <<>>

(***************************************************************************)
(* Helpers of the rate limiter properties.                                 *)
(***************************************************************************)
\* the calls of wait_if_needed and try_acquire that have returned
CompletedAcquires ==
    acct.started - Cardinality({t \in Threads : th_pc[t] # "idle"})

\* a step of thread t inside wait_if_needed that takes the lock
TakesLock(t) == th_pc[t] = "wait_if_needed" /\ th_pc'[t] # "wait_if_needed"

\* the step in which the time.sleep of thread t returns
Wakes(t) == th_pc[t] = "sleeping" /\ th_pc'[t] = "idle"

(***************************************************************************)
(* C13 (as claimed): in every reachable state of RateLimiter and           *)
(* AdaptiveRateLimiter, under any interleaving of their methods, the       *)
(* token count satisfies 0 <= tokens <= max_tokens, and max_tokens is the  *)
(* current rate.                                                           *)
(***************************************************************************)
C13_TokensWithinCapacity ==
    /\ 0 <= tokens
    /\ tokens <= max_tokens
    /\ max_tokens = rate * TicksPerWindow

(***************************************************************************)
(* C14: on a fresh limiter of capacity C, with no time elapsing, the       *)
(* first C try_acquire calls return True and deduct one token each and     *)
(* the next returns False and deducts nothing; after that try_acquire      *)
(* returns True again only once the time to refill one full token,         *)
(* per_seconds / C, has elapsed.                                           *)
(***************************************************************************)
C14_TryAcquireBurst ==
    [][(tries.pure /\ \E t \in Threads : TryAcquire(t))
          => /\ (time = 0 /\ tries.granted < rate)
                   => /\ th_result' = "True"
                      /\ tokens' = tokens - TicksPerWindow
             /\ (time = 0 /\ tries.granted >= rate)
                   => /\ th_result' = "False"
                      /\ tokens' = tokens
             /\ (tries.granted = rate /\ tries.last_granted_at = 0)
                   => (th_result' = "True" <=> time * rate >= TicksPerWindow)
      ]_vars

C14_Witness ==
    /\ rate = 1
    /\ tries.pure
    /\ tries.granted = 2
    /\ tries.last_granted_at = TicksPerWindow
    /\ acct.started = 3
    /\ acct.denied = 1
    /\ th_result = "True"
    /\ \A t \in Threads : th_pc[t] = "idle"

(***************************************************************************)
(* C15 (as claimed): try_acquire never blocks: no thread that has called   *)
(* try_acquire stands waiting while another thread sleeps inside           *)
(* wait_if_needed on the same limiter.                                     *)
(***************************************************************************)
C15_TryAcquireNeverBlocks ==
    ~ \E a, b \in Threads :
         /\ th_pc[a] = "sleeping"
         /\ lock = a
         /\ th_pc[b] = "try_acquire"

(***************************************************************************)
(* C16: wait_if_needed refills first; with fewer than 1 token it then      *)
(* sleeps exactly (1 - tokens) * (per_seconds / rate), refills again and   *)
(* deducts exactly one token; with at least 1 token it deducts exactly     *)
(* one token without sleeping.                                             *)
(***************************************************************************)
C16_WaitIfNeededSteps ==
    [][\A t \in Threads :
          LET refilled == Min(max_tokens,
                              tokens + (time - last_refill) * rate)
              after_sleep == Min(max_tokens,
                                 tokens + (time' - last_refill) * rate)
          IN  /\ TakesLock(t)
                   => IF refilled < TicksPerWindow
                      THEN /\ th_pc'[t] = "sleeping"
                           /\ tokens' = refilled
                           /\ wait_time'.num * rate
                                 = (TicksPerWindow - refilled) * wait_time'.den
                      ELSE /\ th_pc'[t] = "idle"
                           /\ tokens' = refilled - TicksPerWindow
                           /\ time' = time
              /\ Wakes(t)
                   => /\ (time' - last_refill) * wait_time.den >= wait_time.num
                      /\ tokens' = after_sleep - TicksPerWindow
      ]_vars

C16_Witness ==
    /\ \E t \in Threads : th_pc[t] = "sleeping"
    /\ rate = 1
    /\ tokens = 1
    /\ wait_time.num = wait_time.den
    /\ wake_at = time + 1

(***************************************************************************)
(* C17: with several threads calling wait_if_needed on one limiter every   *)
(* call eventually returns, and the tokens deducted are one per completed  *)
(* call (try_acquire calls that were denied apart): none is lost, none     *)
(* applied twice.                                                          *)
(***************************************************************************)
C17_ConcurrentWaitIfNeeded ==
    /\ [](rate * TicksPerWindow + acct.added - tokens
             = TicksPerWindow * (CompletedAcquires - acct.denied))
    /\ \A t \in Threads :
          (th_pc[t] \in {"wait_if_needed", "sleeping"}) ~> (th_pc[t] = "idle")

C17_Witness ==
    /\ acct.denied = 0
    /\ acct.started = 4
    /\ CompletedAcquires = 2
    /\ \E a, b \in Threads : /\ th_pc[a] = "sleeping"
                             /\ th_pc[b] = "wait_if_needed"

(***************************************************************************)
(* C18 (as claimed): wait_if_needed called back to back for a duration D   *)
(* on a fresh limiter of rate C per window W completes calls at an average *)
(* rate calls / D between 0.9 * C / W and 1.1 * C / W.                     *)
(***************************************************************************)
C18_SustainedThroughput ==
    (test_duration > 0 /\ th_pc[1] = "idle" /\ time >= test_duration)
        => /\ 9 * rate * time <= 10 * acct.started * TicksPerWindow
           /\ 10 * acct.started * TicksPerWindow <= 11 * rate * time

(***************************************************************************)
(* C19: the 10th consecutive report_success since the counter was last     *)
(* reset raises the rate by exactly 1, capped at max_rate, sets the        *)
(* capacity to the new rate and resets the counter to 0; each of the 9     *)
(* calls before it leaves rate and capacity unchanged.                     *)
(***************************************************************************)
C19_TenthSuccessRaisesRate ==
    [][(\E t \in Threads : ReportSuccess(t))
          => IF success_count = 9
             THEN /\ rate' = (IF rate + 1 <= max_rate THEN rate + 1
                              ELSE max_rate)
                  /\ max_tokens' = rate' * TicksPerWindow
                  /\ success_count' = 0
             ELSE /\ success_count < 9
                  /\ success_count' = success_count + 1
                  /\ rate' = rate
                  /\ max_tokens' = max_tokens
      ]_vars

C19_Witness ==
    /\ adaptive
    /\ initial_rate = 1
    /\ rate = 2
    /\ max_tokens = 2 * TicksPerWindow
    /\ success_count = 0
    /\ since_error = -1

(***************************************************************************)
(* C20: report_rate_limit_error sets the rate to max(min_rate, rate // 2), *)
(* the capacity to the new rate and the success counter to 0, so that      *)
(* after it the rate rises only with the 10th further report_success.      *)
(***************************************************************************)
C20_RateLimitErrorHalvesRate ==
    [][/\ (\E t \in Threads : ReportRateLimitError(t))
             => /\ rate' = (IF rate \div 2 >= min_rate THEN rate \div 2
                            ELSE min_rate)
                /\ max_tokens' = rate' * TicksPerWindow
                /\ success_count' = 0
       /\ ((\E t \in Threads : ReportSuccess(t))
              /\ since_error # -1 /\ rate' > rate)
             => since_error = 9
      ]_vars

C20_Witness ==
    /\ adaptive
    /\ initial_rate = 3
    /\ min_rate = 1
    /\ rate = 1
    /\ since_error = 9
    /\ success_count = 9

(***************************************************************************)
(* C21 (as claimed): in every reachable state of an AdaptiveRateLimiter,   *)
(* right after construction and after any sequence of report_success,      *)
(* report_rate_limit_error and reset_to_initial calls,                     *)
(* min_rate <= rate <= max_rate.                                           *)
(***************************************************************************)
C21_RateWithinBounds ==
    adaptive => (min_rate <= rate /\ rate <= max_rate)

(***************************************************************************)
(* C22: reset_to_initial, from any reachable state, sets the rate to the   *)
(* rate the limiter was constructed with, capacity and token count to      *)
(* that rate, and the success counter to 0.                                *)
(***************************************************************************)
C22_ResetToInitial ==
    [][/\ initial_rate' = initial_rate
       /\ (\E t \in Threads : ResetToInitial(t))
             => /\ rate' = initial_rate
                /\ max_tokens' = initial_rate * TicksPerWindow
                /\ tokens' = initial_rate * TicksPerWindow
                /\ success_count' = 0
      ]_vars

C22_Witness ==
    /\ adaptive
    /\ initial_rate = 3
    /\ rate = 3
    /\ tokens = 3 * TicksPerWindow
    /\ max_tokens = 3 * TicksPerWindow
    /\ success_count = 0
    /\ since_error = 0
    /\ acct.started >= 1

(***************************************************************************)
(* C23 (as claimed): when an exception escapes the per-record handler in a *)
(* non-dry run of sync_products, the remaining records are not processed,  *)
(* the exception propagates, and the product writes and log entries made   *)
(* for earlier records of the run stay as they are.                        *)
(***************************************************************************)
C23_AbortKeepsEarlierWrites ==
    [][(~s_dry_run /\ ProcessRecordRaises)
          => /\ s_pc' = "idle"
             /\ LastRun'.outcome = "raised"
             /\ LastRun'.summary = summary
             /\ products' = products
             /\ logs' = logs]_vars

(***************************************************************************)
(* C23 (amended): when an exception escapes the per-record handler in a    *)
(* non-dry run of sync_products, the remaining records are not processed,  *)
(* the exception propagates, and the transaction is rolled back: products  *)
(* and log entries are again what they were when the run started.          *)
(***************************************************************************)
C23_AbortRollsBack ==
    [][(~s_dry_run /\ ProcessRecordRaises)
          => /\ s_pc' = "idle"
             /\ LastRun'.outcome = "raised"
             /\ LastRun'.summary = summary
             /\ summary.create + summary.update + summary.skip + summary.errors
                    = s_index - 1
             /\ s_index - 1 < summary.total
             /\ products' = LastRun.products_before
             /\ logs' = LastRun.logs_before
             /\ products' = committed.products
             /\ logs' = committed.logs
             /\ committed' = committed
             /\ n_rollbacks' = n_rollbacks + 1]_vars

C23_Witness ==
    /\ s_pc = "idle"
    /\ Len(history) >= 1
    /\ LastRun.outcome = "raised"
    /\ ~LastRun.dry_run
    /\ Len(LastRun.items) = 2
    /\ LastRun.summary.create = 1
    /\ products = LastRun.products_before
    /\ logs = LastRun.logs_before
    /\ n_rollbacks >= 1

\* no two rows share a set external identifier or a set external SKU
NoSharedExternalKeys(rows) ==
    \A i, j \in 1..Len(rows) :
        (i # j) =>
            /\ (rows[i].external_id = rows[j].external_id
                    => rows[i].external_id = NULL)
            /\ (rows[i].external_sku = rows[j].external_sku
                    => rows[i].external_sku = NULL)

\* the rows the create or write of a valid record d would leave, were it
\* accepted
AttemptedRows(rows, d) ==
    LET by_id == SearchFirst(rows, "external_id", external_id_of(d))
        by_sku == IF SearchFirst(rows, "external_sku", d["sku"]) # 0
                  THEN SearchFirst(rows, "external_sku", d["sku"])
                  ELSE SearchFirst(rows, "default_code", d["sku"])
        found == IF by_id # 0 THEN by_id ELSE by_sku
        values == [external_id |-> external_id_of(d), external_sku |-> d["sku"]]
    IN  IF found = 0
        THEN Append(rows, [ProductDefaults EXCEPT
                              !.external_id = values.external_id,
                              !.external_sku = values.external_sku])
        ELSE [rows EXCEPT ![found] =
                 [@ EXCEPT !.external_id = values.external_id,
                           !.external_sku = values.external_sku]]

\* a non-dry step on a valid record whose create or write would give two
\* rows the same external identifier or SKU
DuplicatingStep ==
    /\ s_pc = "processing"
    /\ s_index <= Len(external_products)
    /\ ~s_dry_run
    /\ is_dict(external_products[s_index])
    /\ ~InvalidRecord(external_products[s_index])
    /\ ~NoSharedExternalKeys(AttemptedRows(products,
                                           external_products[s_index]))

C25_IdentifierImpliesSku ==
    \A i \in 1..Len(products) :
        (products[i].external_id \notin {NULL, ""})
            => (products[i].external_sku \notin {NULL, ""})

C25_Witness ==
    /\ Len(history) >= 1
    /\ Completed(LastRun)
    /\ ~LastRun.dry_run
    /\ LastRun.summary.create = 1
    /\ LastRun.summary.update = 1
    /\ Len(products) = 2
    /\ \A i \in 1..Len(products) :
          /\ products[i].is_from_external
          /\ products[i].external_id \notin {NULL, ""}
          /\ products[i].external_sku \notin {NULL, ""}

\* the synchronizable fields in which record d differs from the row
ChangedFields(row, d) ==
    {f \in {"name", "sku"} :
        IF f = "name" THEN get(d, "name", "") # row.name
        ELSE get(d, "sku", "") # row.external_sku}

\* a non-dry step on a valid record of an entity synced before (found by
\* its external identifier), exactly one field of which has changed
OneFieldChangedStep ==
    /\ s_pc = "processing"
    /\ s_index <= Len(external_products)
    /\ ~s_dry_run
    /\ is_dict(external_products[s_index])
    /\ ~InvalidRecord(external_products[s_index])
    /\ \E i \in 1..Len(products) :
          /\ products[i].external_id
                 = external_id_of(external_products[s_index])
          /\ products[i].is_from_external
          /\ Cardinality(ChangedFields(products[i],
                                       external_products[s_index])) = 1

\* the step is one update of that entity: the new values are written, the
\* entity is marked synced at the clock reading made, its error message is
\* cleared, and one 'update' log entry of the batch is added
IsOneUpdate ==
    LET d == external_products[s_index]
        i == CHOOSE i \in 1..Len(products) :
                 products[i].external_id = external_id_of(d)
    IN  /\ products' = [products EXCEPT ![i] =
                           [@ EXCEPT !.name = d["name"],
                                     !.external_sku = d["sku"],
                                     !.default_code = d["sku"],
                                     !.is_from_external = TRUE,
                                     !.sync_status = "synced",
                                     !.last_sync_date = now',
                                     !.sync_error_message = NULL]]
        /\ summary' = [summary EXCEPT !.update = @ + 1]
        /\ logs' = Append(logs, [operation |-> "update", status |-> "success",
                                 product_id |-> i,
                                 external_id |-> external_id_of(d),
                                 external_sku |-> d["sku"],
                                 sync_batch_id |-> sync_batch_id])

UnchangedRecordStep ==
    /\ s_pc = "processing"
    /\ s_index <= Len(external_products)
    /\ ~s_dry_run
    /\ is_dict(external_products[s_index])
    /\ ~InvalidRecord(external_products[s_index])
    /\ \E i \in 1..Len(products) :
          /\ products[i].external_id
                 = external_id_of(external_products[s_index])
          /\ products[i].is_from_external
          /\ products[i].default_code = products[i].external_sku
          /\ ChangedFields(products[i], external_products[s_index]) = {}

(***************************************************************************)
(* C27 (as claimed): update_from_external called with data equal to the    *)
(* entity's current values in every synchronizable field returns False     *)
(* (the record is a skip) and writes nothing: every field of the row, the  *)
(* sync timestamp included, stays as it was.                               *)
(***************************************************************************)
C27_UnchangedDataNoWrite ==
    [][UnchangedRecordStep
          => /\ products' = products
             /\ summary' = [summary EXCEPT !.skip = @ + 1]]_vars

\* the rows holding the identifier of record d, and the rows its SKU finds
RowsWithId(rows, d) ==
    {i \in 1..Len(rows) : rows[i].external_id = external_id_of(d)}

RowsWithSku(rows, d) ==
    LET external == {i \in 1..Len(rows) : rows[i].external_sku = d["sku"]}
    IN  IF external # {} THEN external
        ELSE {i \in 1..Len(rows) : rows[i].default_code = d["sku"]}

\* a step that processes a valid record
ValidRecordStep ==
    /\ s_pc = "processing"
    /\ s_index <= Len(external_products)
    /\ is_dict(external_products[s_index])
    /\ ~InvalidRecord(external_products[s_index])

\* the step touches no row outside S, adds none, and counts no create
AppliedWithin(S) ==
    /\ Len(products') = Len(products)
    /\ \A k \in 1..Len(products) : k \notin S => products'[k] = products[k]
    /\ summary'.create = summary.create
    /\ (~s_dry_run /\ summary'.errors = summary.errors)
          => /\ Len(logs') = Len(logs) + 1
             /\ logs'[Len(logs')].product_id \in S

(***************************************************************************)
(* C28: a record is looked up by external identifier first and by SKU      *)
(* only when no entity has that identifier: when an entity has the         *)
(* identifier, the record is applied to it, whatever its SKU matches;      *)
(* when none has it and an entity matches the SKU, the record is applied   *)
(* to that entity as an update or a skip (linking it to the identifier     *)
(* when written) and no second entity is created.                          *)
(***************************************************************************)
C28_IdentifierThenSku ==
    [][ValidRecordStep
          => LET d == external_products[s_index]
                 by_id == RowsWithId(products, d)
                 by_sku == RowsWithSku(products, d)
             IN  /\ by_id # {} => AppliedWithin(by_id)
                 /\ (by_id = {} /\ by_sku # {})
                       => /\ AppliedWithin(by_sku)
                          /\ summary'.errors = summary.errors
                          /\ summary'.update + summary'.skip
                                 = summary.update + summary.skip + 1
                          /\ \A k \in by_sku :
                                products'[k] # products[k]
                                   => products'[k].external_id
                                          = external_id_of(d)]_vars

C28_Witness ==
    /\ Len(history) >= 1
    /\ Completed(LastRun)
    /\ ~LastRun.dry_run
    /\ Len(LastRun.items) = 1
    /\ ~InvalidRecord(LastRun.items[1])
    /\ Len(LastRun.products_before) = 1
    /\ RowsWithId(LastRun.products_before, LastRun.items[1]) = {}
    /\ RowsWithSku(LastRun.products_before, LastRun.items[1]) = {1}
    /\ LastRun.summary.update = 1
    /\ Len(LastRun.products_after) = 1
    /\ LastRun.products_after[1].external_id = external_id_of(LastRun.items[1])
    /\ NewLogs(LastRun)[1].product_id = 1

(***************************************************************************)
(* C29: a valid record that matches no product row by external identifier  *)
(* or by SKU creates exactly one new row, which carries the record's       *)
(* external identifier and SKU, is flagged as externally originated and    *)
(* has sync status 'synced'; the step counts one create and logs it.       *)
(***************************************************************************)
C29_UnmatchedRecordCreates ==
    [][(/\ ValidRecordStep
        /\ ~s_dry_run
        /\ RowsWithId(products, external_products[s_index]) = {}
        /\ RowsWithSku(products, external_products[s_index]) = {})
          => LET d == external_products[s_index]
                 n == Len(products) + 1
             IN  /\ Len(products') = n
                 /\ SubSeq(products', 1, n - 1) = products
                 /\ products'[n].external_id = external_id_of(d)
                 /\ products'[n].external_sku = d["sku"]
                 /\ products'[n].is_from_external = TRUE
                 /\ products'[n].sync_status = "synced"
                 /\ summary' = [summary EXCEPT !.create = @ + 1]
                 /\ Len(logs') = Len(logs) + 1
                 /\ logs'[Len(logs')].operation = "create"
                 /\ logs'[Len(logs')].product_id = n]_vars

C29_Witness ==
    /\ Len(history) >= 1
    /\ Completed(LastRun)
    /\ ~LastRun.dry_run
    /\ Len(LastRun.items) = 1
    /\ ~InvalidRecord(LastRun.items[1])
    /\ Len(LastRun.products_before) = 1
    /\ RowsWithId(LastRun.products_before, LastRun.items[1]) = {}
    /\ RowsWithSku(LastRun.products_before, LastRun.items[1]) = {}
    /\ LastRun.summary.create = 1
    /\ Len(LastRun.products_after) = 2
    /\ LastRun.products_after[2].external_id = external_id_of(LastRun.items[1])
    /\ LastRun.products_after[2].external_sku = LastRun.items[1]["sku"]
    /\ LastRun.products_after[2].is_from_external
    /\ LastRun.products_after[2].sync_status = "synced"

\* a record fails in a run of sync_products: the failure is counted
BatchRecordFails ==
    /\ s_pc = "processing"
    /\ summary'.errors = summary.errors + 1

\* a record fails in sync_single_product after the fetch returned it: the
\* failure propagates
SingleRecordFails ==
    /\ s_pc = "fetching_one"
    /\ c_pc = "done"
    /\ c_result.kind = "return"
    /\ ~not_found(c_result.value)
    /\ s_pc' = "idle"
    /\ LastRun'.outcome = "raised"

(***************************************************************************)
(* C30 (as claimed): every failure of a record after the fetch, in         *)
(* sync_products and in the entry point sync_single_product alike, writes  *)
(* an error log entry carrying the batch identifier of the run by the      *)
(* time the failure is counted or propagated.                              *)
(***************************************************************************)
C30_RecordFailureIsLogged ==
    [][(BatchRecordFails \/ SingleRecordFails)
          => /\ Len(logs') = Len(logs) + 1
             /\ logs'[Len(logs')].status = "error"
             /\ logs'[Len(logs')].sync_batch_id = sync_batch_id']_vars

\* the ids of the rows of a log table
LogIds(rows) == {rows[i].id : i \in 1..Len(rows)}

(***************************************************************************)
(* C31: cleanup_old_logs(days) deletes exactly the log entries created     *)
(* before the cutoff (now - days) whose status is not 'error': entries     *)
(* with status 'error' stay whatever their age, entries created at or      *)
(* after the cutoff stay, the rows kept are unchanged and in order, and    *)
(* the number returned is the number deleted.                              *)
(***************************************************************************)
C31_CleanupDeletesOldNonErrors ==
    (call.fn = "cleanup_old_logs")
        => LET before == call.table
               cutoff == now - call.days
           IN  /\ \A i \in 1..Len(before) :
                     (before[i].id \in LogIds(logs))
                        <=> (before[i].status = "error"
                                \/ before[i].create_date >= cutoff)
               /\ \A i \in 1..Len(logs) : before[logs[i].id] = logs[i]
               /\ \A i, j \in 1..Len(logs) : i < j => logs[i].id < logs[j].id
               /\ call.result = Len(before) - Len(logs)

C31_Witness ==
    /\ call.fn = "cleanup_old_logs"
    /\ call.days = 1
    /\ Len(call.table) = 3
    /\ call.result = 1
    /\ \E i, j, k \in 1..3 :
          /\ call.table[i].status = "error"
          /\ call.table[i].create_date < now - call.days
          /\ call.table[j].status = "success"
          /\ call.table[j].create_date < now - call.days
          /\ call.table[k].status = "warning"
          /\ call.table[k].create_date = now - call.days
          /\ LogIds(logs) = {i, k}

NonDryOutcome(rows, d) ==
    LET decided == sync_single_product(rows, <<>>, d, 0, FALSE, now, now, now)
    IN  IF decided.raised THEN "errors" ELSE decided.operation

(***************************************************************************)
(* C33 (as claimed): in a dry run the outcome counted for each record is   *)
(* the outcome a non-dry run would decide for that record on the same      *)
(* rows; in particular an existing entity no field of which differs is     *)
(* counted as a skip, not as an update.                                    *)
(***************************************************************************)
C33_DryRunReportsSameOutcome ==
    [][(/\ s_pc = "processing"
        /\ s_dry_run
        /\ s_index <= Len(external_products)
        /\ is_dict(external_products[s_index]))
          => summary' =
                [summary EXCEPT
                    ![NonDryOutcome(products, external_products[s_index])]
                        = @ + 1]]_vars

(***************************************************************************)
(* C34: sync_products acquires one rate-limiter token before the fetch     *)
(* request and one more for each processed record: a completed run over N  *)
(* records has consumed exactly N + 1 tokens, after k processed records    *)
(* it has consumed k + 1, and no HTTP request of the fetch is issued       *)
(* before the first token has been acquired.                               *)
(***************************************************************************)
C34_TokensPerRun ==
    /\ \A r \in 1..Len(history) :
          Completed(history[r])
             => history[r].tokens = Len(history[r].items) + 1
    /\ (s_pc = "fetching") => tokens_acquired = 1
    /\ (s_pc # "idle" /\ http_requests >= 1) => tokens_acquired >= 1
    /\ (s_pc = "processing") => tokens_acquired = s_index

C34_Witness ==
    /\ Len(history) >= 1
    /\ Completed(LastRun)
    /\ Len(LastRun.items) = 2
    /\ LastRun.tokens = 3
    /\ LastRun.summary.errors = 1

(***************************************************************************)
(* C35 (as claimed): with a limit L >= 0 sync_products processes exactly   *)
(* the first min(L, number of fetched items) records, in fetch order, and  *)
(* reports that number as total; with no limit it processes every fetched  *)
(* record.                                                                 *)
(***************************************************************************)
C35_LimitCapsProcessedRecords ==
    (call.fn = "apply_limit" /\ call.returned)
        => LET n == IF call.limit.given /\ call.limit.value < Len(call.items)
                    THEN call.limit.value
                    ELSE Len(call.items)
           IN  /\ call.result = SubSeq(call.items, 1, n)
               /\ call.total = n

\* a completed non-dry run over two valid records that carry the same
\* external identifier, or the same SKU with different identifiers, the
\* first of which matched no product row
PairRun(h) ==
    /\ Completed(h)
    /\ ~h.dry_run
    /\ Len(h.items) = 2
    /\ is_dict(h.items[1]) /\ ~InvalidRecord(h.items[1])
    /\ is_dict(h.items[2]) /\ ~InvalidRecord(h.items[2])
    /\ \/ h.items[1]["id"] = h.items[2]["id"]
       \/ h.items[1]["sku"] = h.items[2]["sku"]
    /\ RowsWithId(h.products_before, h.items[1]) = {}
    /\ RowsWithSku(h.products_before, h.items[1]) = {}

\* the first record created one entity and the batch created no other
OneEntityForPair(h) ==
    /\ h.summary.create = 1
    /\ Len(h.products_after) = Len(h.products_before) + 1
    /\ NewLogs(h)[1].operation = "create"
    /\ NewLogs(h)[1].product_id = Len(h.products_after)

\* the second record was applied to the entity the first created, as an
\* update or a skip
SecondAppliedToSame(h) ==
    /\ h.summary.update + h.summary.skip = 1
    /\ h.summary.errors = 0
    /\ NewLogs(h)[2].operation \in {"update", "skip"}
    /\ NewLogs(h)[2].product_id = NewLogs(h)[1].product_id

\* no row that existed before the run holds the identifier or the external
\* SKU of the second record
SecondMeetsNoOther(h) ==
    \A i \in 1..Len(h.products_before) :
        /\ h.products_before[i].external_id # external_id_of(h.items[2])
        /\ h.products_before[i].external_sku # h.items[2]["sku"]

(***************************************************************************)
(* C36 (as claimed): when two records of one batch carry the same external *)
(* identifier, or the same SKU with different identifiers, the first       *)
(* creates an entity and the second resolves to that entity and is applied *)
(* as an update or a skip; no second create is attempted and the batch     *)
(* ends with a single entity for the pair.                                 *)
(***************************************************************************)
C36_DuplicatePairOneEntity ==
    \A r \in 1..Len(history) :
        PairRun(history[r])
            => OneEntityForPair(history[r]) /\ SecondAppliedToSame(history[r])

(***************************************************************************)
(* C36 (amended): the batch always ends with the single entity the first   *)
(* record created; the second record is applied to that entity as an      *)
(* update or a skip provided no other entity holds its identifier or its   *)
(* external SKU, and is otherwise resolved to, or rejected because of,     *)
(* that other entity.                                                      *)
(***************************************************************************)
C36_DuplicatePairOneEntityUnlessOther ==
    \A r \in 1..Len(history) :
        PairRun(history[r])
            => /\ OneEntityForPair(history[r])
               /\ SecondMeetsNoOther(history[r])
                     => SecondAppliedToSame(history[r])

C36_Witness ==
    /\ Len(history) >= 1
    /\ PairRun(LastRun)
    /\ LastRun.items[1]["id"] = LastRun.items[2]["id"]
    /\ LastRun.items[1]["sku"] # LastRun.items[2]["sku"]
    /\ Len(LastRun.products_before) = 1
    /\ SecondMeetsNoOther(LastRun)
    /\ LastRun.summary.create = 1
    /\ LastRun.summary.update = 1
    /\ Len(LastRun.products_after) = 2
    /\ LastRun.products_after[2].external_sku = LastRun.items[2]["sku"]

(***************************************************************************)
(* C37 (as claimed): during a run of sync_products every HTTP request sent *)
(* to the external source is covered by its own rate-limiter token: at     *)
(* every point the number of requests issued so far is at most the number  *)
(* of tokens acquired so far, retries of the fetch included.               *)
(***************************************************************************)
C37_RequestsCoveredByTokens ==
    (s_pc # "idle") => http_requests <= tokens_acquired

\* the fetch has ended in an error, or in a response that is empty or has
\* no 'items' list
FetchFailed ==
    /\ s_pc = "fetching"
    /\ c_pc = "done"
    /\ \/ c_result.kind = "APIClientError"
       \/ c_result.value # "json_items"

(***************************************************************************)
(* C38: when the fetch fails (terminal client error or retries exhausted)  *)
(* or the response is empty or lacks an 'items' list, sync_products        *)
(* processes no record, leaves the product rows and the log rows as they   *)
(* were, and raises to the caller.                                         *)
(***************************************************************************)
C38_FailedFetchChangesNothing ==
    [][FetchFailed
          => /\ s_pc' = "idle"
             /\ LastRun'.outcome = "raised"
             /\ LastRun'.items = <<>>
             /\ LastRun'.summary = NewSummary(sync_batch_id)
             /\ products' = products
             /\ logs' = logs
             /\ products' = LastRun.products_before
             /\ logs' = LastRun.logs_before
             /\ committed' = committed]_vars

C38_Witness ==
    /\ Len(history) = 2
    /\ Completed(history[1])
    /\ ~history[1].dry_run
    /\ history[1].summary.create = 1
    /\ history[2].outcome = "raised"
    /\ ~history[2].dry_run
    /\ history[2].items = <<>>
    /\ history[2].tokens = 1
    /\ products = history[1].products_after
    /\ Len(logs) = 1
    /\ n_rollbacks = 1

(***************************************************************************)
(* C39: at normal completion of sync_products the summary satisfies        *)
(* total = create + update + skip + errors, every processed record having  *)
(* added one to exactly one of the four counters.                          *)
(***************************************************************************)
C39_SummaryAddsUp ==
    /\ [](\A r \in 1..Len(history) :
             Completed(history[r])
                => LET sm == history[r].summary
                   IN  /\ sm.total = sm.create + sm.update + sm.skip + sm.errors
                       /\ sm.total = Len(history[r].items))
    /\ [][(s_pc = "processing" /\ s_index' = s_index + 1)
             => \E c \in {"create", "update", "skip", "errors"} :
                   summary' = [summary EXCEPT ![c] = @ + 1]]_vars

C39_Witness ==
    /\ Len(history) >= 1
    /\ Completed(LastRun)
    /\ LastRun.summary.total = 2
    /\ LastRun.summary.skip = 1
    /\ LastRun.summary.errors = 1

(***************************************************************************)
(* C40: an update never overwrites a local field with an empty value: a    *)
(* field whose external value is None or the empty string is left out of   *)
(* the diff and of the write, so the local field keeps its previous value. *)
(***************************************************************************)
ClearedText(d, key) == key \in DOMAIN d /\ d[key] \in {NULL, ""}

ClearedNumber(d, key) == key \in DOMAIN d /\ d[key] = IntNone

C40_EmptyValueNeverOverwrites ==
    (call.fn = "update_from_external" /\ (call.returned \/ call.raised))
        => LET d == call.external_data
           IN  /\ ClearedText(d, "name") => call.after.name = call.row.name
               /\ ClearedText(d, "sku")
                     => /\ call.after.external_sku = call.row.external_sku
                        /\ call.after.default_code = call.row.default_code
               /\ ClearedNumber(d, "id")
                     => call.after.external_id = call.row.external_id
               /\ ClearedNumber(d, "list_price")
                     => call.after.list_price = call.row.list_price
               /\ \A f \in StringValueFields :
                     call.after[f] \in {NULL, ""}
                        => call.after[f] = call.row[f]

=============================================================================
